---------------------------- MODULE Spec2Model ----------------------------
(***************************************************************************)
(* A model of backend/server.py, the e-learning API: the four MongoDB     *)
(* collections (users, classrooms, enrollments, materials) and the        *)
(* request handlers that read and write them.  Every request is a         *)
(* coroutine: it runs from one `await` on the database to the next        *)
(* without interruption, and other requests may run between two awaits.   *)
(* Each action below is one such stretch of one handler; a handler is the *)
(* disjunction of its stretches.                                           *)
(***************************************************************************)
EXTENDS Integers, Sequences, FiniteSets, TLC

VARIABLES
    users,        \* db.users: set of user documents
    classrooms,   \* db.classrooms: set of classroom documents
    enrollments,  \* db.enrollments: set of enrollment documents
    materials,    \* db.materials: set of material documents
    reqs,         \* the requests in flight, one per client connection
    nextUuid,     \* the uuid4 values handed out so far (all distinct)
    now           \* datetime.now(timezone.utc), in hours since the server started

vars == <<users, classrooms, enrollments, materials, reqs, nextUuid, now>>

----------------------------------------------------------------------------
(* Bounds of the model *)

\* number of client connections, each carrying one request at a time
NumClients == 2
\* number of uuid4 values the handlers may draw after the initial population
MaxUuid == 3

----------------------------------------------------------------------------
(* Models (server.py 47-55) *)

TEACHER == "TEACHER"
STUDENT == "STUDENT"

UserRole == {TEACHER, STUDENT}

MaterialType == {"TEXT", "FILE", "VIDEO", "MODEL3D"}

\* an absent Optional[...] field is the empty set, a present one a singleton
None == {}
Some(v) == {v}
get(opt) == CHOOSE v \in opt : TRUE

----------------------------------------------------------------------------
(* generate_code and str.upper *)

UpperLetters == <<"A","B","C","D","E","F","G","H","I","J","K","L","M",
                  "N","O","P","Q","R","S","T","U","V","W","X","Y","Z">>
LowerLetters == <<"a","b","c","d","e","f","g","h","i","j","k","l","m",
                  "n","o","p","q","r","s","t","u","v","w","x","y","z">>
Digits == <<"0","1","2","3","4","5","6","7","8","9">>

Range(s) == {s[i] : i \in DOMAIN s}

\* string.ascii_uppercase + string.digits
CodeAlphabet == Range(UpperLetters) \cup Range(Digits)

\* the characters the model's random generator draws from
CodeChars == {"K", "3", "Z"}

CodeLength == 6

\* random.choices(alphabet, k=length): of the 36^length outcomes the model
\* draws those that repeat one character of CodeChars
generate_code(length) == {[i \in 1..length |-> a] : a \in CodeAlphabet \cap CodeChars}

upper_char(ch) ==
    IF \E i \in DOMAIN LowerLetters : LowerLetters[i] = ch
    THEN UpperLetters[CHOOSE i \in DOMAIN LowerLetters : LowerLetters[i] = ch]
    ELSE ch

\* str.upper()
upper(s) == [i \in DOMAIN s |-> upper_char(s[i])]

----------------------------------------------------------------------------
(* Passwords (server.py 144-150) *)

\* bcrypt.gensalt(): the model draws one salt
Salt == "salt"

\* 144-146: bcrypt.hashpw(password, salt): the salt and the digest of both
hash_password(password) == [salt |-> Salt, digest |-> <<Salt, password>>]

\* 148-150: bcrypt.checkpw(password, hashed) hashes the password with the
\* salt of `hashed` and compares the digests
verify_password(password, hashed) == hashed.digest = <<hashed.salt, password>>

----------------------------------------------------------------------------
(* The initial population the specifications start from *)

T1 == [id |-> 1, email |-> "t1@x", password |-> hash_password("pw1"),
       role |-> TEACHER, name |-> "T1", avatar |-> None,
       createdAt |-> 0, updatedAt |-> 0]
T2 == [T1 EXCEPT !.id = 2, !.email = "t2@x", !.name = "T2"]
S1 == [T1 EXCEPT !.id = 3, !.email = "s1@x", !.name = "S1", !.role = STUDENT]
S2 == [T1 EXCEPT !.id = 4, !.email = "s2@x", !.name = "S2", !.role = STUDENT]

Code1 == <<"K","3","F","9","Q","Z">>
Code1Lower == <<"k","3","f","9","q","z">>
Code2 == <<"A","B","C","1","2","3">>
MissingCode == <<"N","O","C","O","D","E">>

Classroom1 == [id |-> 5, name |-> "Biology 101", code |-> Code1,
               isActive |-> TRUE, teacherId |-> 1,
               createdAt |-> 0, updatedAt |-> 0]
Classroom2 == [id |-> 6, name |-> "Physics", code |-> Code2,
               isActive |-> TRUE, teacherId |-> 2,
               createdAt |-> 0, updatedAt |-> 0]

Material1 == [id |-> 7, title |-> "intro", type |-> "TEXT", order |-> 1,
              isPublished |-> TRUE, classroomId |-> 5, createdById |-> 1,
              createdAt |-> 0, updatedAt |-> 0]
Material2 == [id |-> 8, title |-> "draft", type |-> "MODEL3D", order |-> 2,
              isPublished |-> FALSE, classroomId |-> 5, createdById |-> 1,
              createdAt |-> 0, updatedAt |-> 0]
Material3 == [id |-> 9, title |-> "optics", type |-> "VIDEO", order |-> 1,
              isPublished |-> TRUE, classroomId |-> 6, createdById |-> 2,
              createdAt |-> 0, updatedAt |-> 0]

Material4 == [id |-> 10, title |-> "cells", type |-> "FILE", order |-> 3,
              isPublished |-> TRUE, classroomId |-> 5, createdById |-> 1,
              createdAt |-> 0, updatedAt |-> 0]

\* the first uuid4 value drawn after the initial population
FirstUuid == Material4.id + 1

\* an id no document has
MissingId == FirstUuid + MaxUuid

----------------------------------------------------------------------------
(* Requests *)

Clients == 1..NumClients

NoUser == [id |-> 0, email |-> "", password |-> hash_password(""), role |-> "",
           name |-> "", avatar |-> None, createdAt |-> 0, updatedAt |-> 0]
NoClassroom == [id |-> 0, name |-> "", code |-> <<>>, isActive |-> FALSE, teacherId |-> 0,
                createdAt |-> 0, updatedAt |-> 0]
NoMaterial == [id |-> 0, title |-> "", type |-> "", order |-> 0,
               isPublished |-> FALSE, classroomId |-> 0, createdById |-> 0,
               createdAt |-> 0, updatedAt |-> 0]
NoToken == [sub |-> 0, email |-> "", role |-> "", exp |-> 0, key |-> ""]
NoData == [none |-> TRUE]

\* a client with no request in flight
Idle == [op |-> "idle", pc |-> "idle", user |-> NoUser, id |-> 0, code |-> <<>>,
         data |-> NoData, classroom |-> NoClassroom, material |-> NoMaterial,
         newId |-> 0, idx |-> 0, count |-> <<0, 0>>, ts |-> 0,
         status |-> 0, detail |-> "", body |-> {}, token |-> NoToken]

\* the request handler `op` entered by `user` (the document get_current_user returned)
Request(op, pc, user) == [Idle EXCEPT !.op = op, !.pc = pc, !.user = user]

\* raise HTTPException(status_code, detail), or a normal return with status 200:
\* what is left of the request is its inputs and its response (the handler's
\* local variables are gone)
Respond(q, status, detail) ==
    [Idle EXCEPT !.op = q.op, !.pc = "done", !.user = q.user, !.id = q.id,
                 !.code = q.code, !.data = q.data,
                 !.status = status, !.detail = detail]

\* an exception no handler catches: the framework answers 500
InternalServerError(q) == Respond(q, 500, "Internal Server Error")

Stores == <<users, classrooms, enrollments, materials>>

\* uuid.uuid4(): a value never drawn before
CanDrawUuid == nextUuid < FirstUuid + MaxUuid

\* uuid.uuid4() for a document whose id no handler ever reads back (an
\* enrollment): a value no stored document of the collection has
fresh_id(coll) == CHOOSE n \in 1..(Cardinality(coll) + 1) : \A d \in coll : d.id # n

\* db.<collection>.find_one({"id": id})
find_by_id(coll, id, none) ==
    IF \E d \in coll : d.id = id THEN CHOOSE d \in coll : d.id = id ELSE none

\* the response has been sent; the connection is free for the next request
Return(r) ==
    /\ reqs[r].pc = "done"
    /\ reqs' = [reqs EXCEPT ![r] = Idle]
    /\ UNCHANGED <<users, classrooms, enrollments, materials, nextUuid, now>>

----------------------------------------------------------------------------
(* Tokens (server.py 25-27, 152-179) *)

JWT_SECRET == "elearning-secret-key-2024"

JWT_EXPIRATION_HOURS == 24

\* jwt.encode leaving the token unsigned
jwt_encode_unsigned(payload, key) ==
    [sub |-> payload.sub, email |-> payload.email, role |-> payload.role,
     exp |-> payload.exp, key |-> ""]

\* jwt.encode(payload, key): the payload, signed with the key
jwt_encode(payload, key) ==
    [sub |-> payload.sub, email |-> payload.email, role |-> payload.role,
     exp |-> payload.exp, key |-> key]

\* jwt.decode(token, key): the signature is verified first, then the "exp"
\* claim against the clock; a valid token yields its payload
jwt_decode(token, key) ==
    IF token.key # key THEN [error |-> "InvalidTokenError"]
    ELSE IF token.exp <= now THEN [error |-> "ExpiredSignatureError"]
    ELSE [error |-> "", sub |-> token.sub, email |-> token.email, role |-> token.role]

\* 152-160
create_token(user_id, email, role) ==
    jwt_encode([sub |-> user_id, email |-> email, role |-> role,
                exp |-> now + JWT_EXPIRATION_HOURS], JWT_SECRET)

\* 162-179: the status, the detail and the user document the dependency ends
\* with; the user is looked up by the token's "sub" alone
get_current_user(token) ==
    LET payload == jwt_decode(token, JWT_SECRET)
    IN IF payload.error = "ExpiredSignatureError"
       THEN [status |-> 401, detail |-> "Token expired", user |-> NoUser]
       ELSE IF payload.error = "InvalidTokenError"
       THEN [status |-> 401, detail |-> "Invalid token", user |-> NoUser]
       ELSE LET user == find_by_id(users, payload.sub, NoUser)
            IN IF user = NoUser
               THEN [status |-> 401, detail |-> "User not found", user |-> NoUser]
               ELSE [status |-> 200, detail |-> "", user |-> user]

----------------------------------------------------------------------------
(* The clock behind datetime.now(timezone.utc) *)

\* the number of times the clock advances
MaxTicks == 2

\* the clock advances in steps of half a token's lifetime
TickHours == JWT_EXPIRATION_HOURS \div 2

Tick ==
    /\ now < MaxTicks * TickHours
    /\ now' = now + TickHours
    /\ UNCHANGED <<users, classrooms, enrollments, materials, reqs, nextUuid>>

----------------------------------------------------------------------------
(* Indexes created by startup_db (server.py 727-738) *)

\* users.email unique
users_email_free(email) == \A u \in users : u.email # email

\* the classrooms collection without its unique code index
classrooms_code_unindexed(code) == TRUE

\* classrooms.code unique
classrooms_code_free(code) == \A c \in classrooms : c.code # code

\* the enrollments collection without its compound unique index
enrollments_pair_unindexed(studentId, classroomId) == TRUE

\* enrollments (studentId, classroomId) unique
enrollments_pair_free(studentId, classroomId) ==
    \A e \in enrollments : ~(e.studentId = studentId /\ e.classroomId = classroomId)

----------------------------------------------------------------------------
(* join_classroom (server.py 456-488) *)

\* 457-460: the role check, before the first await
join_classroom_start(r, u, code) ==
    /\ reqs[r].pc = "idle"
    /\ u \in users
    /\ LET q == [Request("join_classroom", "join_find_classroom", u) EXCEPT !.code = code]
       IN reqs' = [reqs EXCEPT ![r] =
                IF u.role # STUDENT
                THEN Respond(q, 403, "Only students can join classrooms")
                ELSE q]
    /\ UNCHANGED <<users, classrooms, enrollments, materials, nextUuid, now>>

\* 462-467: find_one({"code": data.code.upper()}), then the isActive check
join_classroom_find(r) ==
    /\ reqs[r].pc = "join_find_classroom"
    /\ LET q == reqs[r]
           found == {c \in classrooms : c.code = upper(q.code)}
       IN \/ /\ found = {}
             /\ reqs' = [reqs EXCEPT ![r] = Respond(q, 404, "Invalid classroom code")]
          \/ \E c \in found :
                reqs' = [reqs EXCEPT ![r] =
                    IF ~c.isActive
                    THEN Respond(q, 400, "Classroom is not active")
                    ELSE [q EXCEPT !.pc = "join_find_existing", !.classroom = c]]
    /\ UNCHANGED <<users, classrooms, enrollments, materials, nextUuid, now>>

\* join_classroom without its "already enrolled" check
join_classroom_existing_unchecked(r) ==
    /\ reqs[r].pc = "join_find_existing"
    /\ reqs' = [reqs EXCEPT ![r].pc = "join_insert"]
    /\ UNCHANGED <<users, classrooms, enrollments, materials, nextUuid, now>>

\* 469-475: find_one({"studentId", "classroomId"})
join_classroom_existing(r) ==
    /\ reqs[r].pc = "join_find_existing"
    /\ LET q == reqs[r]
           existing == \E e \in enrollments :
                          e.studentId = q.user.id /\ e.classroomId = q.classroom.id
       IN reqs' = [reqs EXCEPT ![r] =
                IF existing
                THEN Respond(q, 400, "Already enrolled in this classroom")
                ELSE [q EXCEPT !.pc = "join_insert"]]
    /\ UNCHANGED <<users, classrooms, enrollments, materials, nextUuid, now>>

\* 477-488: insert_one under the unique (studentId, classroomId) index;
\* pymongo's DuplicateKeyError is not caught
join_classroom_insert(r) ==
    /\ reqs[r].pc = "join_insert"
    /\ LET q == reqs[r]
       IN IF enrollments_pair_free(q.user.id, q.classroom.id)
          THEN /\ enrollments' = enrollments \cup
                     {[id |-> fresh_id(enrollments), studentId |-> q.user.id,
                       classroomId |-> q.classroom.id]}
               /\ reqs' = [reqs EXCEPT ![r] =
                     [Respond(q, 200, "") EXCEPT !.body = {q.classroom}]]
          ELSE /\ enrollments' = enrollments
               /\ reqs' = [reqs EXCEPT ![r] = InternalServerError(q)]
    /\ UNCHANGED <<users, classrooms, materials, nextUuid, now>>

join_classroom(r, callers, codes) ==
    \/ \E u \in callers, code \in codes : join_classroom_start(r, u, code)
    \/ join_classroom_find(r)
    \/ join_classroom_existing(r)
    \/ join_classroom_insert(r)

----------------------------------------------------------------------------
(* leave_classroom (server.py 490-504) *)

\* 491-494
leave_classroom_start(r, u, id) ==
    /\ reqs[r].pc = "idle"
    /\ u \in users
    /\ LET q == [Request("leave_classroom", "leave_delete", u) EXCEPT !.id = id]
       IN reqs' = [reqs EXCEPT ![r] =
                IF u.role # STUDENT
                THEN Respond(q, 403, "Only students can leave classrooms")
                ELSE q]
    /\ UNCHANGED <<users, classrooms, enrollments, materials, nextUuid, now>>

\* 496-504: delete_one removes one matching document, if there is one
leave_classroom_delete(r) ==
    /\ reqs[r].pc = "leave_delete"
    /\ LET q == reqs[r]
           matching == {e \in enrollments :
                          e.studentId = q.user.id /\ e.classroomId = q.id}
       IN \/ /\ matching = {}
             /\ enrollments' = enrollments
             /\ reqs' = [reqs EXCEPT ![r] = Respond(q, 404, "Not enrolled in this classroom")]
          \/ \E e \in matching :
                /\ enrollments' = enrollments \ {e}
                /\ reqs' = [reqs EXCEPT ![r] = Respond(q, 200, "Left classroom")]
    /\ UNCHANGED <<users, classrooms, materials, nextUuid, now>>

leave_classroom(r, callers, ids) ==
    \/ \E u \in callers, id \in ids : leave_classroom_start(r, u, id)
    \/ leave_classroom_delete(r)

----------------------------------------------------------------------------
(* delete_classroom (server.py 439-454) *)

delete_classroom_start(r, u, id) ==
    /\ reqs[r].pc = "idle"
    /\ u \in users
    /\ reqs' = [reqs EXCEPT ![r] =
            [Request("delete_classroom", "delete_find", u) EXCEPT !.id = id]]
    /\ UNCHANGED <<users, classrooms, enrollments, materials, nextUuid, now>>

\* 442-447
delete_classroom_find(r) ==
    /\ reqs[r].pc = "delete_find"
    /\ LET q == reqs[r]
           classroom == find_by_id(classrooms, q.id, NoClassroom)
       IN reqs' = [reqs EXCEPT ![r] =
                IF classroom = NoClassroom
                THEN Respond(q, 404, "Classroom not found")
                ELSE IF classroom.teacherId # q.user.id
                THEN Respond(q, 403, "Not authorized")
                ELSE [q EXCEPT !.pc = "delete_enrollments", !.classroom = classroom]]
    /\ UNCHANGED <<users, classrooms, enrollments, materials, nextUuid, now>>

\* delete_classroom removing the classroom record first, where the code
\* deletes the enrollments
delete_classroom_enrollments_after_classroom(r) ==
    /\ reqs[r].pc = "delete_enrollments"
    /\ classrooms' = {c \in classrooms : c.id # reqs[r].id}
    /\ reqs' = [reqs EXCEPT ![r].pc = "delete_materials"]
    /\ UNCHANGED <<users, enrollments, materials, nextUuid, now>>

\* 450
delete_classroom_enrollments(r) ==
    /\ reqs[r].pc = "delete_enrollments"
    /\ enrollments' = {e \in enrollments : e.classroomId # reqs[r].id}
    /\ reqs' = [reqs EXCEPT ![r].pc = "delete_materials"]
    /\ UNCHANGED <<users, classrooms, materials, nextUuid, now>>

\* 451
delete_classroom_materials(r) ==
    /\ reqs[r].pc = "delete_materials"
    /\ materials' = {m \in materials : m.classroomId # reqs[r].id}
    /\ reqs' = [reqs EXCEPT ![r].pc = "delete_classroom"]
    /\ UNCHANGED <<users, classrooms, enrollments, nextUuid, now>>

\* 452-454
delete_classroom_classroom(r) ==
    /\ reqs[r].pc = "delete_classroom"
    /\ classrooms' = {c \in classrooms : c.id # reqs[r].id}
    /\ reqs' = [reqs EXCEPT ![r] = Respond(reqs[r], 200, "Classroom deleted")]
    /\ UNCHANGED <<users, enrollments, materials, nextUuid, now>>

\* 450-452: the awaited write raises (the connection to the database is lost):
\* nothing is written, the remaining steps are not run and the framework
\* answers 500
delete_classroom_write_fails(r) ==
    /\ reqs[r].pc \in {"delete_enrollments", "delete_materials", "delete_classroom"}
    /\ reqs' = [reqs EXCEPT ![r] = InternalServerError(reqs[r])]
    /\ UNCHANGED <<users, classrooms, enrollments, materials, nextUuid, now>>

delete_classroom(r, callers, ids) ==
    \/ \E u \in callers, id \in ids : delete_classroom_start(r, u, id)
    \/ delete_classroom_find(r)
    \/ delete_classroom_enrollments(r)
    \/ delete_classroom_materials(r)
    \/ delete_classroom_classroom(r)

----------------------------------------------------------------------------
(* create_classroom (server.py 334-370) *)

\* 337-342: the role check, uuid4, the first generate_code() and now()
create_classroom_start(r, u, name) ==
    /\ reqs[r].pc = "idle"
    /\ u \in users
    /\ LET q == [Request("create_classroom", "create_check_code", u)
                    EXCEPT !.data = [name |-> name]]
       IN IF u.role # TEACHER
          THEN /\ reqs' = [reqs EXCEPT ![r] =
                      Respond(q, 403, "Only teachers can create classrooms")]
               /\ nextUuid' = nextUuid
          ELSE /\ CanDrawUuid
               /\ \E code \in generate_code(CodeLength) :
                     reqs' = [reqs EXCEPT ![r] =
                         [q EXCEPT !.newId = nextUuid, !.code = code, !.ts = now]]
               /\ nextUuid' = nextUuid + 1
    /\ UNCHANGED <<users, classrooms, enrollments, materials, now>>

\* 345-346: one turn of `while await find_one({"code": code})`
create_classroom_check(r) ==
    /\ reqs[r].pc = "create_check_code"
    /\ LET q == reqs[r]
       IN IF \E c \in classrooms : c.code = q.code
          THEN \E code \in generate_code(CodeLength) :
                  reqs' = [reqs EXCEPT ![r].code = code]
          ELSE reqs' = [reqs EXCEPT ![r].pc = "create_insert"]
    /\ UNCHANGED <<users, classrooms, enrollments, materials, nextUuid, now>>

\* 348-370: insert_one under the unique code index
create_classroom_insert(r) ==
    /\ reqs[r].pc = "create_insert"
    /\ LET q == reqs[r]
           classroom_doc == [id |-> q.newId, name |-> q.data.name, code |-> q.code,
                             isActive |-> TRUE, teacherId |-> q.user.id,
                             createdAt |-> q.ts, updatedAt |-> q.ts]
       IN IF classrooms_code_free(q.code)
          THEN /\ classrooms' = classrooms \cup {classroom_doc}
               /\ reqs' = [reqs EXCEPT ![r] =
                     [Respond(q, 200, "") EXCEPT !.body = {classroom_doc}]]
          ELSE /\ classrooms' = classrooms
               /\ reqs' = [reqs EXCEPT ![r] = InternalServerError(q)]
    /\ UNCHANGED <<users, enrollments, materials, nextUuid, now>>

create_classroom(r, callers, names) ==
    \/ \E u \in callers, name \in names : create_classroom_start(r, u, name)
    \/ create_classroom_check(r)
    \/ create_classroom_insert(r)

----------------------------------------------------------------------------
(* Access checks of the read handlers *)

\* 380-382, 542-544, 578-580: `classroom["teacherId"] != user["id"]`
teacher_owns(user, classroom) == classroom.teacherId = user.id

\* the student's access check answering for any student
find_enrollment_unchecked(studentId, classroomId) == TRUE

\* 384-389, 546-551, 582-585: find_one({"studentId", "classroomId"})
find_enrollment(studentId, classroomId) ==
    \E e \in enrollments : e.studentId = studentId /\ e.classroomId = classroomId

\* the write handlers' owner check letting every teacher through
is_owner_any_teacher(user, classroom) == user.role = TEACHER

\* 416, 446, 513, 602, 652, 682, 695: `classroom["teacherId"] != user["id"]`
is_owner(user, classroom) == classroom.teacherId = user.id

----------------------------------------------------------------------------
(* get_classroom (server.py 372-407) *)

get_classroom_start(r, u, id) ==
    /\ reqs[r].pc = "idle"
    /\ u \in users
    /\ reqs' = [reqs EXCEPT ![r] =
            [Request("get_classroom", "getc_find", u) EXCEPT !.id = id]]
    /\ UNCHANGED <<users, classrooms, enrollments, materials, nextUuid, now>>

\* 375-382: find_one, and the teacher's access check
get_classroom_find(r) ==
    /\ reqs[r].pc = "getc_find"
    /\ LET q == reqs[r]
           classroom == find_by_id(classrooms, q.id, NoClassroom)
       IN reqs' = [reqs EXCEPT ![r] =
                IF classroom = NoClassroom
                THEN Respond(q, 404, "Classroom not found")
                ELSE IF q.user.role = TEACHER
                THEN IF ~teacher_owns(q.user, classroom)
                     THEN Respond(q, 403, "Not authorized")
                     ELSE [q EXCEPT !.pc = "getc_count_enrollments",
                                    !.classroom = classroom]
                ELSE [q EXCEPT !.pc = "getc_find_enrollment", !.classroom = classroom]]
    /\ UNCHANGED <<users, classrooms, enrollments, materials, nextUuid, now>>

\* 384-389: the student's access check
get_classroom_enrollment(r) ==
    /\ reqs[r].pc = "getc_find_enrollment"
    /\ LET q == reqs[r]
       IN reqs' = [reqs EXCEPT ![r] =
                IF ~find_enrollment(q.user.id, q.id)
                THEN Respond(q, 403, "Not enrolled in this classroom")
                ELSE [q EXCEPT !.pc = "getc_count_enrollments"]]
    /\ UNCHANGED <<users, classrooms, enrollments, materials, nextUuid, now>>

\* 392
get_classroom_count_enrollments(r) ==
    /\ reqs[r].pc = "getc_count_enrollments"
    /\ reqs' = [reqs EXCEPT ![r].pc = "getc_count_materials",
                            ![r].count[1] =
                Cardinality({e \in enrollments : e.classroomId = reqs[r].id})]
    /\ UNCHANGED <<users, classrooms, enrollments, materials, nextUuid, now>>

\* 393
get_classroom_count_materials(r) ==
    /\ reqs[r].pc = "getc_count_materials"
    /\ reqs' = [reqs EXCEPT ![r].pc = "getc_find_teacher",
                            ![r].count[2] =
                Cardinality({m \in materials : m.classroomId = reqs[r].id})]
    /\ UNCHANGED <<users, classrooms, enrollments, materials, nextUuid, now>>

\* 394-407: find_one on users, then the enriched classroom is returned
get_classroom_teacher(r) ==
    /\ reqs[r].pc = "getc_find_teacher"
    /\ LET q == reqs[r]
       IN reqs' = [reqs EXCEPT ![r] =
                [Respond(q, 200, "") EXCEPT !.body = {q.classroom}, !.count = q.count]]
    /\ UNCHANGED <<users, classrooms, enrollments, materials, nextUuid, now>>

get_classroom(r, callers, ids) ==
    \/ \E u \in callers, id \in ids : get_classroom_start(r, u, id)
    \/ get_classroom_find(r)
    \/ get_classroom_enrollment(r)
    \/ get_classroom_count_enrollments(r)
    \/ get_classroom_count_materials(r)
    \/ get_classroom_teacher(r)

----------------------------------------------------------------------------
(* update_classroom (server.py 409-437) *)

\* the ClassroomUpdate bodies the model sends: name and isActive, each Optional
ClassroomUpdate == [name : {None, Some("Botany")}, isActive : {None, Some(TRUE), Some(FALSE)}]

\* 419-429: the fields of update_data
classroom_update_data(data) ==
    {f \in {"name", "isActive"} : data[f] # None}

\* the update replacing the document by update_data: a field the request
\* leaves out is stored empty
classroom_set_replacing(c, data, updatedAt) ==
    [c EXCEPT !.name = IF data.name # None THEN get(data.name) ELSE "",
              !.isActive = IF data.isActive # None THEN get(data.isActive) ELSE FALSE,
              !.updatedAt = updatedAt]

\* 432-433: {"$set": update_data}, which carries updatedAt as well
classroom_set(c, data, updatedAt) ==
    [c EXCEPT !.name = IF data.name # None THEN get(data.name) ELSE @,
              !.isActive = IF data.isActive # None THEN get(data.isActive) ELSE @,
              !.updatedAt = updatedAt]

update_classroom_start(r, u, id, data) ==
    /\ reqs[r].pc = "idle"
    /\ u \in users
    /\ reqs' = [reqs EXCEPT ![r] =
            [Request("update_classroom", "updc_find", u) EXCEPT !.id = id, !.data = data]]
    /\ UNCHANGED <<users, classrooms, enrollments, materials, nextUuid, now>>

\* update_classroom checking the owner before it checks that the classroom
\* was found
update_classroom_find_owner_first(r) ==
    /\ reqs[r].pc = "updc_find"
    /\ LET q == reqs[r]
           classroom == find_by_id(classrooms, q.id, NoClassroom)
       IN reqs' = [reqs EXCEPT ![r] =
                IF ~is_owner(q.user, classroom)
                THEN Respond(q, 403, "Not authorized")
                ELSE IF classroom = NoClassroom
                THEN Respond(q, 404, "Classroom not found")
                ELSE IF classroom_update_data(q.data) # {}
                THEN [q EXCEPT !.pc = "updc_write", !.ts = now]
                ELSE [q EXCEPT !.pc = "updc_reread"]]
    /\ UNCHANGED <<users, classrooms, enrollments, materials, nextUuid, now>>

\* 412-432: find_one, the checks, update_data and its updatedAt = now()
update_classroom_find(r) ==
    /\ reqs[r].pc = "updc_find"
    /\ LET q == reqs[r]
           classroom == find_by_id(classrooms, q.id, NoClassroom)
       IN reqs' = [reqs EXCEPT ![r] =
                IF classroom = NoClassroom
                THEN Respond(q, 404, "Classroom not found")
                ELSE IF ~is_owner(q.user, classroom)
                THEN Respond(q, 403, "Not authorized")
                ELSE IF classroom_update_data(q.data) # {}
                THEN [q EXCEPT !.pc = "updc_write", !.ts = now]
                ELSE [q EXCEPT !.pc = "updc_reread"]]
    /\ UNCHANGED <<users, classrooms, enrollments, materials, nextUuid, now>>

\* 433: update_one({"id": id}, {"$set": update_data})
update_classroom_write(r) ==
    /\ reqs[r].pc = "updc_write"
    /\ classrooms' = {IF c.id = reqs[r].id
                      THEN classroom_set(c, reqs[r].data, reqs[r].ts) ELSE c
                        : c \in classrooms}
    /\ reqs' = [reqs EXCEPT ![r].pc = "updc_reread"]
    /\ UNCHANGED <<users, enrollments, materials, nextUuid, now>>

\* 435-437: find_one again; `updated.pop` raises on None
update_classroom_reread(r) ==
    /\ reqs[r].pc = "updc_reread"
    /\ LET q == reqs[r]
           updated == find_by_id(classrooms, q.id, NoClassroom)
       IN reqs' = [reqs EXCEPT ![r] =
                IF updated = NoClassroom
                THEN InternalServerError(q)
                ELSE [Respond(q, 200, "") EXCEPT !.body = {updated}]]
    /\ UNCHANGED <<users, classrooms, enrollments, materials, nextUuid, now>>

update_classroom(r, callers, ids, datas) ==
    \/ \E u \in callers, id \in ids, data \in datas : update_classroom_start(r, u, id, data)
    \/ update_classroom_find(r)
    \/ update_classroom_write(r)
    \/ update_classroom_reread(r)

----------------------------------------------------------------------------
(* get_classroom_students (server.py 506-530) *)

get_classroom_students_start(r, u, id) ==
    /\ reqs[r].pc = "idle"
    /\ u \in users
    /\ reqs' = [reqs EXCEPT ![r] =
            [Request("get_classroom_students", "students_find", u) EXCEPT !.id = id]]
    /\ UNCHANGED <<users, classrooms, enrollments, materials, nextUuid, now>>

\* 509-514
get_classroom_students_find(r) ==
    /\ reqs[r].pc = "students_find"
    /\ LET q == reqs[r]
           classroom == find_by_id(classrooms, q.id, NoClassroom)
       IN reqs' = [reqs EXCEPT ![r] =
                IF classroom = NoClassroom
                THEN Respond(q, 404, "Classroom not found")
                ELSE IF ~is_owner(q.user, classroom)
                THEN Respond(q, 403, "Not authorized")
                ELSE [q EXCEPT !.pc = "students_list"]]
    /\ UNCHANGED <<users, classrooms, enrollments, materials, nextUuid, now>>

\* 516-530: the enrollments are read in one find (to_list(100): at most 100,
\* more than the model ever stores); the loop then looks each student up in
\* users, which no handler deletes from
get_classroom_students_list(r) ==
    /\ reqs[r].pc = "students_list"
    /\ LET q == reqs[r]
           found == {e \in enrollments : e.classroomId = q.id}
       IN reqs' = [reqs EXCEPT ![r] =
                [Respond(q, 200, "") EXCEPT !.body =
                    {u \in users : \E e \in found : e.studentId = u.id}]]
    /\ UNCHANGED <<users, classrooms, enrollments, materials, nextUuid, now>>

get_classroom_students(r, callers, ids) ==
    \/ \E u \in callers, id \in ids : get_classroom_students_start(r, u, id)
    \/ get_classroom_students_find(r)
    \/ get_classroom_students_list(r)

----------------------------------------------------------------------------
(* get_materials (server.py 534-566) *)

get_materials_start(r, u, classroomId) ==
    /\ reqs[r].pc = "idle"
    /\ u \in users
    /\ reqs' = [reqs EXCEPT ![r] =
            [Request("get_materials", "getms_find", u) EXCEPT !.id = classroomId]]
    /\ UNCHANGED <<users, classrooms, enrollments, materials, nextUuid, now>>

\* 537-544: find_one, and the teacher's access check
get_materials_find(r) ==
    /\ reqs[r].pc = "getms_find"
    /\ LET q == reqs[r]
           classroom == find_by_id(classrooms, q.id, NoClassroom)
       IN reqs' = [reqs EXCEPT ![r] =
                IF classroom = NoClassroom
                THEN Respond(q, 404, "Classroom not found")
                ELSE IF q.user.role = TEACHER
                THEN IF ~teacher_owns(q.user, classroom)
                     THEN Respond(q, 403, "Not authorized")
                     ELSE [q EXCEPT !.pc = "getms_query"]
                ELSE [q EXCEPT !.pc = "getms_find_enrollment"]]
    /\ UNCHANGED <<users, classrooms, enrollments, materials, nextUuid, now>>

\* 546-551: the student's access check
get_materials_enrollment(r) ==
    /\ reqs[r].pc = "getms_find_enrollment"
    /\ LET q == reqs[r]
       IN reqs' = [reqs EXCEPT ![r] =
                IF ~find_enrollment(q.user.id, q.id)
                THEN Respond(q, 403, "Not enrolled")
                ELSE [q EXCEPT !.pc = "getms_query"]]
    /\ UNCHANGED <<users, classrooms, enrollments, materials, nextUuid, now>>

\* 554-556: the query; a student's has isPublished = True
materials_query(user, classroomId) ==
    {m \in materials : /\ m.classroomId = classroomId
                       /\ (user.role = STUDENT => m.isPublished)}

\* 558-566: find(query); the loop then looks each creator up in users, which
\* no handler deletes from.  The body is the set of the documents returned
\* (they are sent sorted by their order field; to_list(100) cuts the list at
\* 100 documents, more than the model ever stores).
get_materials_query(r) ==
    /\ reqs[r].pc = "getms_query"
    /\ LET q == reqs[r]
       IN reqs' = [reqs EXCEPT ![r] =
                [Respond(q, 200, "") EXCEPT !.body = materials_query(q.user, q.id)]]
    /\ UNCHANGED <<users, classrooms, enrollments, materials, nextUuid, now>>

get_materials(r, callers, ids) ==
    \/ \E u \in callers, id \in ids : get_materials_start(r, u, id)
    \/ get_materials_find(r)
    \/ get_materials_enrollment(r)
    \/ get_materials_query(r)

----------------------------------------------------------------------------
(* get_material (server.py 568-593) *)

get_material_start(r, u, id) ==
    /\ reqs[r].pc = "idle"
    /\ u \in users
    /\ reqs' = [reqs EXCEPT ![r] =
            [Request("get_material", "getm_find", u) EXCEPT !.id = id]]
    /\ UNCHANGED <<users, classrooms, enrollments, materials, nextUuid, now>>

\* 571-573
get_material_find(r) ==
    /\ reqs[r].pc = "getm_find"
    /\ LET q == reqs[r]
           material == find_by_id(materials, q.id, NoMaterial)
       IN reqs' = [reqs EXCEPT ![r] =
                IF material = NoMaterial
                THEN Respond(q, 404, "Material not found")
                ELSE [q EXCEPT !.pc = "getm_find_classroom", !.material = material]]
    /\ UNCHANGED <<users, classrooms, enrollments, materials, nextUuid, now>>

\* 575-580: find_one on classrooms, not checked for None; the teacher's
\* access check subscripts it
get_material_classroom(r) ==
    /\ reqs[r].pc = "getm_find_classroom"
    /\ LET q == reqs[r]
           classroom == find_by_id(classrooms, q.material.classroomId, NoClassroom)
       IN reqs' = [reqs EXCEPT ![r] =
                IF q.user.role = TEACHER
                THEN IF classroom = NoClassroom
                     THEN InternalServerError(q)
                     ELSE IF ~teacher_owns(q.user, classroom)
                     THEN Respond(q, 403, "Not authorized")
                     ELSE [q EXCEPT !.pc = "getm_creator"]
                ELSE [q EXCEPT !.pc = "getm_find_enrollment"]]
    /\ UNCHANGED <<users, classrooms, enrollments, materials, nextUuid, now>>

\* the student's check without its isPublished half
student_may_read_unpublished(enrolled, material) == enrolled

\* 586: `not enrollment or not material.get("isPublished", True)`
student_may_read(enrolled, material) == enrolled /\ material.isPublished

\* 582-587: the student's access check
get_material_enrollment(r) ==
    /\ reqs[r].pc = "getm_find_enrollment"
    /\ LET q == reqs[r]
           enrollment == find_enrollment(q.user.id, q.material.classroomId)
       IN reqs' = [reqs EXCEPT ![r] =
                IF ~student_may_read(enrollment, q.material)
                THEN Respond(q, 403, "Not authorized")
                ELSE [q EXCEPT !.pc = "getm_creator"]]
    /\ UNCHANGED <<users, classrooms, enrollments, materials, nextUuid, now>>

\* 589-593: find_one on users, then the material read at 571 is returned
get_material_creator(r) ==
    /\ reqs[r].pc = "getm_creator"
    /\ LET q == reqs[r]
       IN reqs' = [reqs EXCEPT ![r] =
                [Respond(q, 200, "") EXCEPT !.body = {q.material}]]
    /\ UNCHANGED <<users, classrooms, enrollments, materials, nextUuid, now>>

get_material(r, callers, ids) ==
    \/ \E u \in callers, id \in ids : get_material_start(r, u, id)
    \/ get_material_find(r)
    \/ get_material_classroom(r)
    \/ get_material_enrollment(r)
    \/ get_material_creator(r)

----------------------------------------------------------------------------
(* create_material (server.py 595-642) *)

create_material_start(r, u, classroomId, data) ==
    /\ reqs[r].pc = "idle"
    /\ u \in users
    /\ reqs' = [reqs EXCEPT ![r] =
            [Request("create_material", "cm_find", u)
                EXCEPT !.id = classroomId, !.data = data]]
    /\ UNCHANGED <<users, classrooms, enrollments, materials, nextUuid, now>>

\* 598-606
create_material_find(r) ==
    /\ reqs[r].pc = "cm_find"
    /\ LET q == reqs[r]
           classroom == find_by_id(classrooms, q.id, NoClassroom)
       IN reqs' = [reqs EXCEPT ![r] =
                IF classroom = NoClassroom
                THEN Respond(q, 404, "Classroom not found")
                ELSE IF ~is_owner(q.user, classroom)
                THEN Respond(q, 403, "Not authorized")
                ELSE IF q.data.type \notin MaterialType
                THEN Respond(q, 400, "Invalid material type")
                ELSE [q EXCEPT !.pc = "cm_find_last"]]
    /\ UNCHANGED <<users, classrooms, enrollments, materials, nextUuid, now>>

\* next_order leaving one order value out after the last material
next_order_skipping(classroomId) ==
    LET orders == {m.order : m \in {x \in materials : x.classroomId = classroomId}}
    IN IF orders = {} THEN 1
       ELSE (CHOOSE o \in orders : \A p \in orders : p <= o) + 2

\* next_order counting the classroom's materials instead of reading the last
next_order_by_count(classroomId) ==
    Cardinality({x \in materials : x.classroomId = classroomId}) + 1

\* 609-613: find_one(sort=[("order", -1)]), then next_order
next_order(classroomId) ==
    LET orders == {m.order : m \in {x \in materials : x.classroomId = classroomId}}
    IN IF orders = {} THEN 1
       ELSE (CHOOSE o \in orders : \A p \in orders : p <= o) + 1

\* 609-636: the read of the last material, then uuid4, now() and material_doc
create_material_last(r) ==
    /\ reqs[r].pc = "cm_find_last"
    /\ CanDrawUuid
    /\ LET q == reqs[r]
           material_doc ==
               [id |-> nextUuid, title |-> q.data.title, type |-> q.data.type,
                order |-> next_order(q.id),
                isPublished |-> IF q.data.isPublished # None
                                THEN get(q.data.isPublished) ELSE TRUE,
                classroomId |-> q.id, createdById |-> q.user.id,
                createdAt |-> now, updatedAt |-> now]
       IN reqs' = [reqs EXCEPT ![r] =
                [q EXCEPT !.pc = "cm_insert", !.material = material_doc]]
    /\ nextUuid' = nextUuid + 1
    /\ UNCHANGED <<users, classrooms, enrollments, materials, now>>

\* 638-642
create_material_insert(r) ==
    /\ reqs[r].pc = "cm_insert"
    /\ materials' = materials \cup {reqs[r].material}
    /\ reqs' = [reqs EXCEPT ![r] =
            [Respond(reqs[r], 200, "") EXCEPT !.body = {reqs[r].material}]]
    /\ UNCHANGED <<users, classrooms, enrollments, nextUuid, now>>

create_material(r, callers, ids, datas) ==
    \/ \E u \in callers, id \in ids, data \in datas : create_material_start(r, u, id, data)
    \/ create_material_find(r)
    \/ create_material_last(r)
    \/ create_material_insert(r)

----------------------------------------------------------------------------
(* update_material (server.py 644-672) *)

\* the fields of MaterialUpdate the model carries
MaterialUpdateFields == {"title", "type", "isPublished", "order"}

\* 655-660: the fields of update_data
material_update_data(data) == {f \in MaterialUpdateFields : data[f] # None}

\* 663-664: {"$set": update_data}, which carries updatedAt as well
material_set(m, data, updatedAt) ==
    [m EXCEPT !.title = IF data.title # None THEN get(data.title) ELSE @,
              !.type = IF data.type # None THEN get(data.type) ELSE @,
              !.isPublished = IF data.isPublished # None THEN get(data.isPublished) ELSE @,
              !.order = IF data.order # None THEN get(data.order) ELSE @,
              !.updatedAt = updatedAt]

update_material_start(r, u, id, data) ==
    /\ reqs[r].pc = "idle"
    /\ u \in users
    /\ reqs' = [reqs EXCEPT ![r] =
            [Request("update_material", "um_find", u) EXCEPT !.id = id, !.data = data]]
    /\ UNCHANGED <<users, classrooms, enrollments, materials, nextUuid, now>>

\* 647-649
update_material_find(r) ==
    /\ reqs[r].pc = "um_find"
    /\ LET q == reqs[r]
           material == find_by_id(materials, q.id, NoMaterial)
       IN reqs' = [reqs EXCEPT ![r] =
                IF material = NoMaterial
                THEN Respond(q, 404, "Material not found")
                ELSE [q EXCEPT !.pc = "um_find_classroom", !.material = material]]
    /\ UNCHANGED <<users, classrooms, enrollments, materials, nextUuid, now>>

\* 651-663: find_one on classrooms, not checked for None before it is
\* subscripted; then update_data and its updatedAt = now()
update_material_classroom(r) ==
    /\ reqs[r].pc = "um_find_classroom"
    /\ LET q == reqs[r]
           classroom == find_by_id(classrooms, q.material.classroomId, NoClassroom)
       IN reqs' = [reqs EXCEPT ![r] =
                IF classroom = NoClassroom
                THEN InternalServerError(q)
                ELSE IF ~is_owner(q.user, classroom)
                THEN Respond(q, 403, "Not authorized")
                ELSE IF material_update_data(q.data) # {}
                THEN [q EXCEPT !.pc = "um_write", !.ts = now]
                ELSE [q EXCEPT !.pc = "um_reread"]]
    /\ UNCHANGED <<users, classrooms, enrollments, materials, nextUuid, now>>

\* 664: update_one({"id": id}, {"$set": update_data})
update_material_write(r) ==
    /\ reqs[r].pc = "um_write"
    /\ materials' = {IF m.id = reqs[r].id
                     THEN material_set(m, reqs[r].data, reqs[r].ts) ELSE m
                       : m \in materials}
    /\ reqs' = [reqs EXCEPT ![r].pc = "um_reread"]
    /\ UNCHANGED <<users, classrooms, enrollments, nextUuid, now>>

\* 666-672: find_one again (`updated.pop` raises on None), then the creator
\* is looked up in users
update_material_reread(r) ==
    /\ reqs[r].pc = "um_reread"
    /\ LET q == reqs[r]
           updated == find_by_id(materials, q.id, NoMaterial)
       IN reqs' = [reqs EXCEPT ![r] =
                IF updated = NoMaterial
                THEN InternalServerError(q)
                ELSE [Respond(q, 200, "") EXCEPT !.body = {updated}]]
    /\ UNCHANGED <<users, classrooms, enrollments, materials, nextUuid, now>>

update_material(r, callers, ids, datas) ==
    \/ \E u \in callers, id \in ids, data \in datas : update_material_start(r, u, id, data)
    \/ update_material_find(r)
    \/ update_material_classroom(r)
    \/ update_material_write(r)
    \/ update_material_reread(r)

----------------------------------------------------------------------------
(* delete_material (server.py 674-686) *)

delete_material_start(r, u, id) ==
    /\ reqs[r].pc = "idle"
    /\ u \in users
    /\ reqs' = [reqs EXCEPT ![r] =
            [Request("delete_material", "dm_find", u) EXCEPT !.id = id]]
    /\ UNCHANGED <<users, classrooms, enrollments, materials, nextUuid, now>>

\* 677-679
delete_material_find(r) ==
    /\ reqs[r].pc = "dm_find"
    /\ LET q == reqs[r]
           material == find_by_id(materials, q.id, NoMaterial)
       IN reqs' = [reqs EXCEPT ![r] =
                IF material = NoMaterial
                THEN Respond(q, 404, "Material not found")
                ELSE [q EXCEPT !.pc = "dm_find_classroom", !.material = material]]
    /\ UNCHANGED <<users, classrooms, enrollments, materials, nextUuid, now>>

\* 681-683: find_one on classrooms, not checked for None before it is subscripted
delete_material_classroom(r) ==
    /\ reqs[r].pc = "dm_find_classroom"
    /\ LET q == reqs[r]
           classroom == find_by_id(classrooms, q.material.classroomId, NoClassroom)
       IN reqs' = [reqs EXCEPT ![r] =
                IF classroom = NoClassroom
                THEN InternalServerError(q)
                ELSE IF ~is_owner(q.user, classroom)
                THEN Respond(q, 403, "Not authorized")
                ELSE [q EXCEPT !.pc = "dm_delete"]]
    /\ UNCHANGED <<users, classrooms, enrollments, materials, nextUuid, now>>

\* 685-686
delete_material_delete(r) ==
    /\ reqs[r].pc = "dm_delete"
    /\ materials' = {m \in materials : m.id # reqs[r].id}
    /\ reqs' = [reqs EXCEPT ![r] = Respond(reqs[r], 200, "Material deleted")]
    /\ UNCHANGED <<users, classrooms, enrollments, nextUuid, now>>

delete_material(r, callers, ids) ==
    \/ \E u \in callers, id \in ids : delete_material_start(r, u, id)
    \/ delete_material_find(r)
    \/ delete_material_classroom(r)
    \/ delete_material_delete(r)

----------------------------------------------------------------------------
(* reorder_materials (server.py 688-704) *)

reorder_materials_start(r, u, classroomId, materialIds) ==
    /\ reqs[r].pc = "idle"
    /\ u \in users
    /\ reqs' = [reqs EXCEPT ![r] =
            [Request("reorder_materials", "reorder_find", u)
                EXCEPT !.id = classroomId, !.data = [materialIds |-> materialIds]]]
    /\ UNCHANGED <<users, classrooms, enrollments, materials, nextUuid, now>>

\* 691-696
reorder_materials_find(r) ==
    /\ reqs[r].pc = "reorder_find"
    /\ LET q == reqs[r]
           classroom == find_by_id(classrooms, q.id, NoClassroom)
       IN reqs' = [reqs EXCEPT ![r] =
                IF classroom = NoClassroom
                THEN Respond(q, 404, "Classroom not found")
                ELSE IF ~is_owner(q.user, classroom)
                THEN Respond(q, 403, "Not authorized")
                ELSE IF q.data.materialIds = <<>>
                THEN Respond(q, 200, "Materials reordered")
                ELSE [q EXCEPT !.pc = "reorder_loop", !.idx = 0]]
    /\ UNCHANGED <<users, classrooms, enrollments, materials, nextUuid, now>>

\* the loop ending after its first turn
reorder_materials_loop_first_only(r) ==
    /\ reqs[r].pc = "reorder_loop"
    /\ LET q == reqs[r]
           material_id == q.data.materialIds[1]
       IN /\ materials' = {IF m.id = material_id THEN [m EXCEPT !.order = 1] ELSE m
                              : m \in materials}
          /\ reqs' = [reqs EXCEPT ![r] = Respond(q, 200, "Materials reordered")]
    /\ UNCHANGED <<users, classrooms, enrollments, nextUuid, now>>

\* the loop storing the index itself, counted from 0, as the order
reorder_materials_loop_zero_based(r) ==
    /\ reqs[r].pc = "reorder_loop"
    /\ LET q == reqs[r]
           index == q.idx
           material_id == q.data.materialIds[index + 1]
       IN /\ materials' = {IF m.id = material_id THEN [m EXCEPT !.order = index] ELSE m
                              : m \in materials}
          /\ reqs' = [reqs EXCEPT ![r] =
                IF index + 1 = Len(q.data.materialIds)
                THEN Respond(q, 200, "Materials reordered")
                ELSE [q EXCEPT !.idx = index + 1]]
    /\ UNCHANGED <<users, classrooms, enrollments, nextUuid, now>>

\* 698-704: one turn of the loop, update_one({"id": material_id}, {"$set":
\* {"order": index + 1}}); the filter names the material's id alone
reorder_materials_loop(r) ==
    /\ reqs[r].pc = "reorder_loop"
    /\ LET q == reqs[r]
           index == q.idx
           material_id == q.data.materialIds[index + 1]
       IN /\ materials' = {IF m.id = material_id THEN [m EXCEPT !.order = index + 1] ELSE m
                              : m \in materials}
          /\ reqs' = [reqs EXCEPT ![r] =
                IF index + 1 = Len(q.data.materialIds)
                THEN Respond(q, 200, "Materials reordered")
                ELSE [q EXCEPT !.idx = index + 1]]
    /\ UNCHANGED <<users, classrooms, enrollments, nextUuid, now>>

reorder_materials(r, callers, ids, lists) ==
    \/ \E u \in callers, id \in ids, l \in lists : reorder_materials_start(r, u, id, l)
    \/ reorder_materials_find(r)
    \/ reorder_materials_loop(r)

----------------------------------------------------------------------------
(* register (server.py 183-222) *)

register_start(r, data) ==
    /\ reqs[r].pc = "idle"
    /\ reqs' = [reqs EXCEPT ![r] =
            [Request("register", "register_find", NoUser) EXCEPT !.data = data]]
    /\ UNCHANGED <<users, classrooms, enrollments, materials, nextUuid, now>>

\* 187-206: find_one({"email"}), the role check, uuid4, now() and user_doc
register_find(r) ==
    /\ reqs[r].pc = "register_find"
    /\ LET q == reqs[r]
           existing == \E u \in users : u.email = q.data.email
       IN IF existing
          THEN /\ reqs' = [reqs EXCEPT ![r] = Respond(q, 400, "Email already registered")]
               /\ nextUuid' = nextUuid
          ELSE IF q.data.role \notin UserRole
          THEN /\ reqs' = [reqs EXCEPT ![r] = Respond(q, 400, "Invalid role")]
               /\ nextUuid' = nextUuid
          ELSE /\ CanDrawUuid
               /\ reqs' = [reqs EXCEPT ![r] =
                      [q EXCEPT !.pc = "register_insert", !.newId = nextUuid,
                                !.ts = now]]
               /\ nextUuid' = nextUuid + 1
    /\ UNCHANGED <<users, classrooms, enrollments, materials, now>>

\* 208-222: insert_one under the unique email index, then the token
register_insert(r) ==
    /\ reqs[r].pc = "register_insert"
    /\ LET q == reqs[r]
           user_doc == [id |-> q.newId, email |-> q.data.email,
                        password |-> hash_password(q.data.password),
                        role |-> q.data.role, name |-> q.data.name, avatar |-> None,
                        createdAt |-> q.ts, updatedAt |-> q.ts]
       IN IF users_email_free(q.data.email)
          THEN /\ users' = users \cup {user_doc}
               /\ reqs' = [reqs EXCEPT ![r] =
                     [Respond(q, 200, "") EXCEPT
                         !.body = {user_doc},
                         !.token = create_token(q.newId, q.data.email, q.data.role)]]
          ELSE /\ users' = users
               /\ reqs' = [reqs EXCEPT ![r] = InternalServerError(q)]
    /\ UNCHANGED <<classrooms, enrollments, materials, nextUuid, now>>

register(r, datas) ==
    \/ \E data \in datas : register_start(r, data)
    \/ register_find(r)
    \/ register_insert(r)

----------------------------------------------------------------------------
(* login (server.py 224-246) *)

login_start(r, data) ==
    /\ reqs[r].pc = "idle"
    /\ reqs' = [reqs EXCEPT ![r] =
            [Request("login", "login_find", NoUser) EXCEPT !.data = data]]
    /\ UNCHANGED <<users, classrooms, enrollments, materials, nextUuid, now>>

\* 227-246: find_one({"email"}), verify_password, then the token
login_find(r) ==
    /\ reqs[r].pc = "login_find"
    /\ LET q == reqs[r]
           found == {u \in users : u.email = q.data.email}
       IN \/ /\ found = {}
             /\ reqs' = [reqs EXCEPT ![r] = Respond(q, 401, "Invalid credentials")]
          \/ \E user \in found :
                reqs' = [reqs EXCEPT ![r] =
                    IF ~verify_password(q.data.password, user.password)
                    THEN Respond(q, 401, "Invalid credentials")
                    ELSE [Respond(q, 200, "") EXCEPT
                             !.body = {user},
                             !.token = create_token(user.id, user.email, user.role)]]
    /\ UNCHANGED <<users, classrooms, enrollments, materials, nextUuid, now>>

login(r, datas) ==
    \/ \E data \in datas : login_start(r, data)
    \/ login_find(r)

----------------------------------------------------------------------------
(* The handlers of /auth, entered with the token of the Authorization header *)

\* the request as it arrives: Depends(get_current_user) has yet to run
authenticated_start(r, op, pc, token, data) ==
    /\ reqs[r].pc = "idle"
    /\ reqs' = [reqs EXCEPT ![r] =
            [Request(op, pc, NoUser) EXCEPT !.token = token, !.data = data]]
    /\ UNCHANGED <<users, classrooms, enrollments, materials, nextUuid, now>>

\* 248-258: get_profile returns the document get_current_user found
get_profile_auth(r) ==
    /\ reqs[r].pc = "profile_auth"
    /\ LET q == reqs[r]
           current == get_current_user(q.token)
       IN reqs' = [reqs EXCEPT ![r] =
                IF current.status # 200
                THEN Respond(q, current.status, current.detail)
                ELSE [Respond(q, 200, "") EXCEPT !.user = current.user,
                                                 !.body = {current.user}]]
    /\ UNCHANGED <<users, classrooms, enrollments, materials, nextUuid, now>>

get_profile(r, tokens) ==
    \/ \E token \in tokens :
          authenticated_start(r, "get_profile", "profile_auth", token, NoData)
    \/ get_profile_auth(r)

\* 263-267: `if data.name:` is false for None and for the empty string
profile_update_data(data) ==
    {f \in {"name"} : data.name # None /\ get(data.name) # ""}
        \cup {f \in {"avatar"} : data.avatar # None}

\* 271: {"$set": update_data}
profile_set(u, data, updatedAt) ==
    [u EXCEPT !.name = IF "name" \in profile_update_data(data) THEN get(data.name) ELSE @,
              !.avatar = IF "avatar" \in profile_update_data(data) THEN data.avatar ELSE @,
              !.updatedAt = updatedAt]

\* 162-179, 263-270: get_current_user, then update_data and its updatedAt
update_profile_auth(r) ==
    /\ reqs[r].pc = "up_auth"
    /\ LET q == reqs[r]
           current == get_current_user(q.token)
       IN reqs' = [reqs EXCEPT ![r] =
                IF current.status # 200
                THEN Respond(q, current.status, current.detail)
                ELSE IF profile_update_data(q.data) # {}
                THEN [q EXCEPT !.pc = "up_write", !.user = current.user, !.ts = now]
                ELSE [q EXCEPT !.pc = "up_reread", !.user = current.user]]
    /\ UNCHANGED <<users, classrooms, enrollments, materials, nextUuid, now>>

\* 271
update_profile_write(r) ==
    /\ reqs[r].pc = "up_write"
    /\ users' = {IF u.id = reqs[r].user.id
                 THEN profile_set(u, reqs[r].data, reqs[r].ts) ELSE u : u \in users}
    /\ reqs' = [reqs EXCEPT ![r].pc = "up_reread"]
    /\ UNCHANGED <<classrooms, enrollments, materials, nextUuid, now>>

\* 273-281: find_one again; no handler deletes a user
update_profile_reread(r) ==
    /\ reqs[r].pc = "up_reread"
    /\ LET q == reqs[r]
           updated_user == find_by_id(users, q.user.id, NoUser)
       IN reqs' = [reqs EXCEPT ![r] =
                [Respond(q, 200, "") EXCEPT !.body = {updated_user}]]
    /\ UNCHANGED <<users, classrooms, enrollments, materials, nextUuid, now>>

update_profile(r, tokens, datas) ==
    \/ \E token \in tokens, data \in datas :
          authenticated_start(r, "update_profile", "up_auth", token, data)
    \/ update_profile_auth(r)
    \/ update_profile_write(r)
    \/ update_profile_reread(r)

\* 162-179, 286-292: get_current_user, verify_password on the document it
\* found, then the new hash and now()
change_password_auth(r) ==
    /\ reqs[r].pc = "cp_auth"
    /\ LET q == reqs[r]
           current == get_current_user(q.token)
       IN reqs' = [reqs EXCEPT ![r] =
                IF current.status # 200
                THEN Respond(q, current.status, current.detail)
                ELSE IF ~verify_password(q.data.currentPassword, current.user.password)
                THEN Respond(q, 400, "Current password is incorrect")
                ELSE [q EXCEPT !.pc = "cp_write", !.user = current.user, !.ts = now]]
    /\ UNCHANGED <<users, classrooms, enrollments, materials, nextUuid, now>>

\* 289-295
change_password_write(r) ==
    /\ reqs[r].pc = "cp_write"
    /\ users' = {IF u.id = reqs[r].user.id
                 THEN [u EXCEPT !.password = hash_password(reqs[r].data.newPassword),
                                !.updatedAt = reqs[r].ts]
                 ELSE u : u \in users}
    /\ reqs' = [reqs EXCEPT ![r] = Respond(reqs[r], 200, "Password changed successfully")]
    /\ UNCHANGED <<classrooms, enrollments, materials, nextUuid, now>>

change_password(r, tokens, datas) ==
    \/ \E token \in tokens, data \in datas :
          authenticated_start(r, "change_password", "cp_auth", token, data)
    \/ change_password_auth(r)
    \/ change_password_write(r)

----------------------------------------------------------------------------

(* Join and leave racing with the owner's update and delete of the classroom *)

InitEnroll ==
    /\ users = {T1, S1, S2}
    /\ classrooms = {Classroom1}
    /\ enrollments = {}
    /\ materials = {Material1}
    /\ reqs = [r \in Clients |-> Idle]
    /\ nextUuid = FirstUuid
    /\ now = 0

SetActive == {[name |-> None, isActive |-> Some(b)] : b \in BOOLEAN}

NextEnroll ==
    \E r \in Clients :
        \/ join_classroom(r, {S1, S2}, {Code1Lower})
        \/ leave_classroom(r, {S1}, {Classroom1.id})
        \/ update_classroom(r, {T1}, {Classroom1.id}, SetActive)
        \/ delete_classroom(r, {T1}, {Classroom1.id})
        \/ Return(r)

SpecEnroll == InitEnroll /\ [][NextEnroll]_vars

----------------------------------------------------------------------------
(* Classroom create requests racing on the code space *)

InitCreate ==
    /\ users = {T1, S1}
    /\ classrooms = {}
    /\ enrollments = {}
    /\ materials = {}
    /\ reqs = [r \in Clients |-> Idle]
    /\ nextUuid = FirstUuid
    /\ now = 0

NextCreate ==
    \E r \in Clients :
        \/ create_classroom(r, {T1, S1}, {"Biology 101"})
        \/ Return(r)

SpecCreate == InitCreate /\ [][NextCreate]_vars

----------------------------------------------------------------------------
(* Register requests racing on one email *)

InitRegister ==
    /\ users = {T1}
    /\ classrooms = {}
    /\ enrollments = {}
    /\ materials = {}
    /\ reqs = [r \in Clients |-> Idle]
    /\ nextUuid = FirstUuid
    /\ now = 0

\* the UserCreate bodies the model sends
UserCreate == [email : {"t1@x", "new@x"}, password : {"pw"},
               role : {TEACHER, STUDENT, "ADMIN"}, name : {"N"}]

NextRegister ==
    \E r \in Clients :
        \/ register(r, UserCreate)
        \/ Return(r)

SpecRegister == InitRegister /\ [][NextRegister]_vars

----------------------------------------------------------------------------
(* Reads of materials by the owner and an enrolled student, racing with the *)
(* owner's publishing and unpublishing                                      *)

Enrollment1 == [id |-> 1, studentId |-> S1.id, classroomId |-> Classroom1.id]

InitPublish ==
    /\ users = {T1, S1}
    /\ classrooms = {Classroom1}
    /\ enrollments = {Enrollment1}
    /\ materials = {Material1, Material2}
    /\ reqs = [r \in Clients |-> Idle]
    /\ nextUuid = FirstUuid
    /\ now = 0

SetPublished ==
    {[title |-> None, type |-> None, isPublished |-> Some(b), order |-> None] : b \in BOOLEAN}

NextPublish ==
    \E r \in Clients :
        \/ get_materials(r, {T1, S1}, {Classroom1.id})
        \/ get_material(r, {T1, S1}, {Material1.id, Material2.id})
        \/ update_material(r, {T1}, {Material1.id}, SetPublished)
        \/ Return(r)

SpecPublish == InitPublish /\ [][NextPublish]_vars

----------------------------------------------------------------------------
(* Reads of a classroom and its materials by its owner, another teacher and *)
(* a student who joins and leaves                                           *)

InitAccess ==
    /\ users = {T1, T2, S1}
    /\ classrooms = {Classroom1}
    /\ enrollments = {}
    /\ materials = {Material1, Material2}
    /\ reqs = [r \in Clients |-> Idle]
    /\ nextUuid = FirstUuid
    /\ now = 0

NextAccess ==
    \E r \in Clients :
        \/ get_classroom(r, {T1, T2, S1}, {Classroom1.id})
        \/ get_materials(r, {T1, T2, S1}, {Classroom1.id})
        \/ join_classroom(r, {S1}, {Code1})
        \/ leave_classroom(r, {S1}, {Classroom1.id})
        \/ Return(r)

SpecAccess == InitAccess /\ [][NextAccess]_vars

----------------------------------------------------------------------------
(* Classroom writes attempted by the owner, another teacher and a student *)

InitOwner ==
    /\ users = {T1, T2, S1}
    /\ classrooms = {Classroom1}
    /\ enrollments = {Enrollment1}
    /\ materials = {Material1}
    /\ reqs = [r \in Clients |-> Idle]
    /\ nextUuid = FirstUuid
    /\ now = 0

Rename == {[name |-> Some("Botany"), isActive |-> None]}

NextOwner ==
    \E r \in Clients :
        \/ update_classroom(r, {T1, T2, S1}, {Classroom1.id}, Rename)
        \/ delete_classroom(r, {T1, T2, S1}, {Classroom1.id})
        \/ get_classroom_students(r, {T1, T2, S1}, {Classroom1.id})
        \/ create_classroom_start(r, S1, "Physics")
        \/ Return(r)

SpecOwner == InitOwner /\ [][NextOwner]_vars

----------------------------------------------------------------------------
(* A classroom delete racing with join, material create and reads *)

InitCascade ==
    /\ users = {T1, S1}
    /\ classrooms = {Classroom1}
    /\ enrollments = {}
    /\ materials = {Material1}
    /\ reqs = [r \in Clients |-> Idle]
    /\ nextUuid = FirstUuid
    /\ now = 0

\* the MaterialCreate bodies the model sends
MaterialCreate == [title : {"notes"}, type : {"TEXT"}, isPublished : {None}]

NextCascade ==
    \E r \in Clients :
        \/ delete_classroom(r, {T1}, {Classroom1.id})
        \/ join_classroom(r, {S1}, {Code1})
        \/ create_material(r, {T1}, {Classroom1.id}, MaterialCreate)
        \/ get_materials(r, {S1}, {Classroom1.id})
        \/ get_material(r, {S1}, {Material1.id, FirstUuid})
        \/ Return(r)

SpecCascade == InitCascade /\ [][NextCascade]_vars

----------------------------------------------------------------------------
(* Material writes attempted by two teachers and a student *)

InitWrite ==
    /\ users = {T1, T2, S1}
    /\ classrooms = {Classroom1, Classroom2}
    /\ enrollments = {Enrollment1}
    /\ materials = {Material1, Material3}
    /\ reqs = [r \in Clients |-> Idle]
    /\ nextUuid = FirstUuid
    /\ now = 0

Retitle ==
    {[title |-> Some("renamed"), type |-> None, isPublished |-> None, order |-> None]}

NextWrite ==
    \E r \in Clients :
        \/ create_material(r, {T1, T2, S1}, {Classroom1.id}, MaterialCreate)
        \/ update_material(r, {T1, T2, S1}, {Material1.id}, Retitle)
        \/ delete_material(r, {T1, T2, S1}, {Material1.id})
        \/ reorder_materials(r, {T1, T2, S1}, {Classroom1.id},
                              {<<Material1.id>>, <<Material1.id, Material3.id>>})
        \/ Return(r)

SpecWrite == InitWrite /\ [][NextWrite]_vars

----------------------------------------------------------------------------
(* Properties of the enrollment store *)

\* C1: in every reachable state the enrollment store holds at most one
\* Enrollment for each (studentId, classroomId) pair, whatever the interleaving
\* of join, leave, update and classroom delete requests.
EnrollmentPairUnique ==
    \A e1 \in enrollments : \A e2 \in enrollments :
        (e1.studentId = e2.studentId /\ e1.classroomId = e2.classroomId) => e1 = e2

\* two joins of one student raced past the "already enrolled" check: the second
\* insert was refused by the index and the student holds one enrollment
DuplicateJoinRefused ==
    \E r \in Clients :
        /\ reqs[r].op = "join_classroom" /\ reqs[r].pc = "done"
        /\ reqs[r].status = 500
        /\ Cardinality({e \in enrollments : e.studentId = reqs[r].user.id}) = 1

\* the classroom a join request's code names, in the store as it is now
classroom_of_code(code) ==
    IF \E c \in classrooms : c.code = upper(code)
    THEN CHOOSE c \in classrooms : c.code = upper(code)
    ELSE NoClassroom

\* C7: while student A holds an enrollment in the classroom of the code, and the
\* classroom exists and is active, a join(code, A) that makes its classroom
\* lookup or its enrollment check either goes on to the enrollment check or ends
\* with "Already enrolled" and adds no enrollment; a join(code, B) by a student B
\* who holds none goes on, or ends with success and adds exactly one enrollment,
\* for B in that classroom.
JoinTwiceRefusedOtherAccepted ==
    [][\A r \in Clients :
        LET q == reqs[r]
            q2 == reqs'[r]
            c == classroom_of_code(q.code)
            enrolled == \E e \in enrollments :
                           e.studentId = q.user.id /\ e.classroomId = c.id
        IN (/\ q.op = "join_classroom"
            /\ q.pc \in {"join_find_classroom", "join_find_existing", "join_insert"}
            /\ q2 # q
            /\ c # NoClassroom /\ c.isActive)
           => IF enrolled
              THEN q.pc # "join_insert" =>
                     \/ q.pc = "join_find_classroom" /\ q2.pc = "join_find_existing"
                     \/ /\ q2.pc = "done" /\ q2.status = 400
                        /\ q2.detail = "Already enrolled in this classroom"
                        /\ enrollments' = enrollments
              ELSE \/ /\ q2.pc \in {"join_find_existing", "join_insert"}
                      /\ enrollments' = enrollments
                   \/ /\ q2.pc = "done" /\ q2.status = 200
                      /\ \E e \in enrollments' \ enrollments :
                            /\ e.studentId = q.user.id /\ e.classroomId = c.id
                            /\ enrollments' = enrollments \cup {e}]_vars

\* S1's second join was refused as already enrolled while S2's join succeeded
SecondJoinRefusedOtherJoined ==
    /\ \E r \in Clients :
          /\ reqs[r].op = "join_classroom" /\ reqs[r].pc = "done"
          /\ reqs[r].user = S1 /\ reqs[r].status = 400
          /\ reqs[r].detail = "Already enrolled in this classroom"
    /\ \E r \in Clients :
          /\ reqs[r].op = "join_classroom" /\ reqs[r].pc = "done"
          /\ reqs[r].user = S2 /\ reqs[r].status = 200
    /\ Cardinality(enrollments) = 2

\* C10: an Enrollment is inserted only for a classroom that exists and has
\* isActive = true at the moment of the insert, whatever the interleaving of
\* join with the owner's update(isActive=false) and delete.
EnrollmentOnlyIntoActiveClassroom ==
    [][\A e \in enrollments' \ enrollments :
          \E c \in classrooms : c.id = e.classroomId /\ c.isActive]_vars

----------------------------------------------------------------------------
(* Properties of the classroom store *)

\* C2: in every reachable state, under any interleaving of classroom create
\* requests, every stored classroom has a code of exactly 6 characters drawn
\* from A-Z and 0-9, and no two stored classrooms hold the same code.
ClassroomCodesWellFormedAndUnique ==
    /\ \A c \in classrooms :
          /\ Len(c.code) = 6
          /\ \A i \in 1..Len(c.code) :
                c.code[i] \in Range(UpperLetters) \cup Range(Digits)
    /\ \A c1 \in classrooms : \A c2 \in classrooms : c1.code = c2.code => c1 = c2

\* two creates drew the same code and both found it unused: one stored its
\* classroom, the other's insert was refused by the index
DuplicateCodeRefused ==
    \E r \in Clients :
        /\ reqs[r].op = "create_classroom" /\ reqs[r].pc = "done"
        /\ reqs[r].status = 500
        /\ \E c \in classrooms : c.code = reqs[r].code

----------------------------------------------------------------------------
(* Properties of the user store *)

\* C6: of two register requests carrying the same email, in any interleaving,
\* one creates the user and the other ends with a conflict error (status 400 or
\* 409), never with success and never with a different kind of failure: every
\* register request with a valid role that has ended has ended with success or
\* with the conflict error, and the store holds one user per email.
RegisterDuplicateEndsInConflict ==
    /\ \A r \in Clients :
          (/\ reqs[r].op = "register" /\ reqs[r].pc = "done"
           /\ reqs[r].data.role \in UserRole)
          => \/ reqs[r].status = 200
             \/ /\ reqs[r].status \in {400, 409}
                /\ reqs[r].detail = "Email already registered"
    /\ \A u1 \in users : \A u2 \in users : u1.email = u2.email => u1 = u2

----------------------------------------------------------------------------
(* Properties of the reads of materials *)

\* C3: for a material with isPublished = false, an enrolled student's get ends
\* with Forbidden at its access check and a student's list returns only
\* published materials, so no successful response to a student carries an
\* unpublished material; the owning teacher's get returns the material and the
\* owner's list returns every material of the classroom, published or not. This
\* holds while the teacher toggles isPublished with update.
UnpublishedHiddenFromStudentsShownToOwner ==
    [][\A r \in Clients :
        LET q == reqs[r]
            q2 == reqs'[r]
            ofClassroom == {m \in materials : m.classroomId = q.id}
        IN /\ (/\ q.pc = "getm_find_enrollment" /\ q2 # q
               /\ ~q.material.isPublished)
              => q2.pc = "done" /\ q2.status = 403
           /\ (q.pc = "getms_query" /\ q2 # q /\ q.user.role = STUDENT)
              => /\ q2.pc = "done" /\ q2.status = 200
                 /\ q2.body = {m \in ofClassroom : m.isPublished}
           /\ (/\ q2.pc = "done" /\ q2.status = 200 /\ q2.user.role = STUDENT
               /\ q2.op \in {"get_material", "get_materials"})
              => \A m \in q2.body : m.isPublished
           /\ (/\ q.pc = "getm_find" /\ q2 # q /\ q.user.role = TEACHER
               /\ \E m \in materials : m.id = q.id)
              => /\ q2.pc = "getm_find_classroom"
                 /\ q2.material \in materials /\ q2.material.id = q.id
           /\ (/\ q.pc = "getm_find_classroom" /\ q2 # q /\ q.user.role = TEACHER
               /\ \E c \in classrooms :
                     c.id = q.material.classroomId /\ c.teacherId = q.user.id)
              => q2.pc = "getm_creator" /\ q2.material = q.material
           /\ (q.pc = "getm_creator" /\ q2 # q)
              => q2.pc = "done" /\ q2.status = 200 /\ q2.body = {q.material}
           /\ (q.pc = "getms_query" /\ q2 # q /\ q.user.role = TEACHER)
              => q2.pc = "done" /\ q2.status = 200 /\ q2.body = ofClassroom]_vars

\* after the owner unpublished Material1, the enrolled student's get of it was
\* refused and the owner's get returned it, unpublished
UnpublishedRefusedToStudentReturnedToOwner ==
    /\ \E m \in materials : m.id = Material1.id /\ ~m.isPublished
    /\ \E r \in Clients :
          /\ reqs[r].op = "get_material" /\ reqs[r].pc = "done"
          /\ reqs[r].user = S1 /\ reqs[r].id = Material1.id
          /\ reqs[r].status = 403
    /\ \E r \in Clients :
          /\ reqs[r].op = "get_material" /\ reqs[r].pc = "done"
          /\ reqs[r].user = T1 /\ reqs[r].status = 200
          /\ \E m \in reqs[r].body : m.id = Material1.id /\ ~m.isPublished

----------------------------------------------------------------------------
(* Properties of the reads of a classroom *)

\* the places of get_classroom and get_materials after their access check
PastAccessCheck ==
    {"getc_count_enrollments", "getc_count_materials", "getc_find_teacher", "getms_query"}

\* canReadClassroom, on the store as it is now
can_read_classroom(user, id) ==
    \/ /\ user.role = TEACHER
       /\ \E c \in classrooms : c.id = id /\ c.teacherId = user.id
    \/ /\ user.role = STUDENT
       /\ \E e \in enrollments : e.studentId = user.id /\ e.classroomId = id

\* C8: get(classroom) and list(materials of classroom) succeed for a user only
\* if, at the moment of the access check, the user is the classroom's owning
\* teacher or a student holding an Enrollment in it: a request passes its access
\* check only then and succeeds only past the check; a student without an
\* enrollment (never joined, or left) and a teacher who does not own the
\* classroom get Forbidden.
ReadsNeedOwnershipOrEnrollment ==
    [][\A r \in Clients :
        LET q == reqs[r]
            q2 == reqs'[r]
        IN (q.op \in {"get_classroom", "get_materials"} /\ q2 # q) =>
           /\ (q.pc \notin PastAccessCheck /\ q2.pc \in PastAccessCheck)
              => can_read_classroom(q.user, q.id)
           /\ (q2.pc = "done" /\ q2.status = 200) => q.pc \in PastAccessCheck
           /\ (/\ q.pc \in {"getc_find", "getms_find"} /\ q.user.role = TEACHER
               /\ \E c \in classrooms : c.id = q.id /\ c.teacherId # q.user.id)
              => q2.pc = "done" /\ q2.status = 403
           /\ (/\ q.pc \in {"getc_find_enrollment", "getms_find_enrollment"}
               /\ ~can_read_classroom(q.user, q.id))
              => q2.pc = "done" /\ q2.status = 403]_vars

\* the student's leave succeeded and the student was refused the materials
LeftStudentRefused ==
    /\ enrollments = {}
    /\ \E r \in Clients :
          /\ reqs[r].op = "leave_classroom" /\ reqs[r].pc = "done"
          /\ reqs[r].user = S1 /\ reqs[r].status = 200
    /\ \E r \in Clients :
          /\ reqs[r].op = "get_materials" /\ reqs[r].pc = "done"
          /\ reqs[r].user = S1 /\ reqs[r].status = 403

----------------------------------------------------------------------------
(* Properties of the writes *)

ClassroomWrites == {"update_classroom", "delete_classroom", "get_classroom_students"}

\* C9: update(classroom), delete(classroom) and listStudents(classroom) on an
\* existing classroom by any user other than its owning teacher end with
\* Forbidden at their lookup of the classroom and leave the classroom, its
\* enrollments and its materials unchanged; create(classroom) by a user whose
\* role is not TEACHER ends with Forbidden and stores no classroom.
NonOwnerWritesForbidden ==
    [][\A r \in Clients :
        LET q == reqs[r]
            q2 == reqs'[r]
        IN /\ (/\ q.op \in ClassroomWrites /\ q.pc # "done" /\ q2 # q
               /\ \E c \in classrooms : c.id = q.id /\ c.teacherId # q.user.id)
              => /\ q.pc \in {"updc_find", "delete_find", "students_find"}
                 /\ q2.pc = "done" /\ q2.status = 403
                 /\ <<classrooms, enrollments, materials>>'
                       = <<classrooms, enrollments, materials>>
           /\ (/\ q.pc = "idle" /\ q2.op = "create_classroom"
               /\ q2.user.role # TEACHER)
              => /\ q2.pc = "done" /\ q2.status = 403
                 /\ classrooms' = classrooms]_vars

\* the other teacher's delete and the student's create were both refused, and
\* the classroom, its enrollment and its material are as they were
NonOwnerDeleteAndStudentCreateRefused ==
    /\ classrooms = {Classroom1}
    /\ enrollments = {Enrollment1}
    /\ materials = {Material1}
    /\ \E r \in Clients :
          /\ reqs[r].op = "delete_classroom" /\ reqs[r].pc = "done"
          /\ reqs[r].user = T2 /\ reqs[r].status = 403
    /\ \E r \in Clients :
          /\ reqs[r].op = "create_classroom" /\ reqs[r].pc = "done"
          /\ reqs[r].user = S1 /\ reqs[r].status = 403

\* C4: after delete(id, owner) has completed, no Enrollment and no Material with
\* classroomId = id exists in the store, whatever join and material-create
\* requests for the classroom were in flight.
NothingLeftAfterClassroomDelete ==
    \A r \in Clients :
        (/\ reqs[r].op = "delete_classroom" /\ reqs[r].pc = "done"
         /\ reqs[r].status = 200)
        => /\ \A e \in enrollments : e.classroomId # reqs[r].id
           /\ \A m \in materials : m.classroomId # reqs[r].id

\* C5: every change to a stored material (insert, field change, removal, order
\* change) is made by a step of a request whose authenticated user is the
\* owning teacher of the classroom the material belongs to.
MaterialChangedOnlyByOwner ==
    [][\A m \in (materials \ materials') \cup (materials' \ materials) :
          \E r \in Clients :
              /\ reqs'[r] # reqs[r]
              /\ \E c \in classrooms :
                    c.id = m.classroomId /\ c.teacherId = reqs[r].user.id]_vars

----------------------------------------------------------------------------
(* Requests that address a classroom, a code, an enrollment or a material *)
(* the store does not hold                                                 *)

InitMissing ==
    /\ users = {T1, S1, S2}
    /\ classrooms = {Classroom1}
    /\ enrollments = {[Enrollment1 EXCEPT !.studentId = S2.id]}
    /\ materials = {Material1}
    /\ reqs = [r \in Clients |-> Idle]
    /\ nextUuid = FirstUuid
    /\ now = 0

\* the handlers up to their first lookup, which is where a request for a
\* missing document ends; the student's update of the existing classroom ends
\* there as well
NextMissing ==
    \E r \in Clients :
        \/ \E u \in {T1, S1} :
              \/ get_classroom_start(r, u, MissingId)
              \/ \E data \in Rename : update_classroom_start(r, u, MissingId, data)
              \/ delete_classroom_start(r, u, MissingId)
              \/ get_classroom_students_start(r, u, MissingId)
              \/ join_classroom_start(r, u, MissingCode)
              \/ \E id \in {MissingId, Classroom1.id} : leave_classroom_start(r, u, id)
              \/ get_materials_start(r, u, MissingId)
              \/ get_material_start(r, u, MissingId)
              \/ \E data \in MaterialCreate : create_material_start(r, u, MissingId, data)
              \/ \E data \in Retitle : update_material_start(r, u, MissingId, data)
              \/ delete_material_start(r, u, MissingId)
              \/ reorder_materials_start(r, u, MissingId, <<Material1.id>>)
        \/ \E data \in Rename : update_classroom_start(r, S1, Classroom1.id, data)
        \/ get_classroom_find(r)
        \/ update_classroom_find(r)
        \/ delete_classroom_find(r)
        \/ get_classroom_students_find(r)
        \/ join_classroom_find(r)
        \/ leave_classroom_delete(r)
        \/ get_materials_find(r)
        \/ get_material_find(r)
        \/ create_material_find(r)
        \/ update_material_find(r)
        \/ delete_material_find(r)
        \/ reorder_materials_find(r)
        \/ Return(r)

SpecMissing == InitMissing /\ [][NextMissing]_vars

ByClassroomId == {"get_classroom", "update_classroom", "delete_classroom",
                  "get_classroom_students", "get_materials", "create_material",
                  "reorder_materials"}

ByMaterialId == {"get_material", "update_material", "delete_material"}

\* the store holds no document of the kind the request addresses
addressed_missing(q) ==
    CASE q.op \in ByClassroomId -> \A c \in classrooms : c.id # q.id
      [] q.op \in ByMaterialId -> \A m \in materials : m.id # q.id
      [] q.op = "join_classroom" -> \A c \in classrooms : c.code # upper(q.code)
      [] q.op = "leave_classroom" ->
            \A e \in enrollments : ~(e.studentId = q.user.id /\ e.classroomId = q.id)
      [] OTHER -> FALSE

\* C11 as stated: every request of either role that addresses a classroom,
\* code, enrollment or material the store does not hold ends with NotFound.
MissingEndsNotFound ==
    \A r \in Clients :
        (reqs[r].pc = "done" /\ addressed_missing(reqs[r])) => reqs[r].status = 404

\* C11: a request that addresses by id a classroom or a material the store does
\* not hold ends with NotFound whatever the caller's role, and so do a
\* student's join with an unknown code and a student's leave of a classroom the
\* student holds no enrollment in; a teacher's join or leave ends with Forbidden
\* before anything is looked up.
MissingEndsNotFoundExceptTeacherJoinLeave ==
    \A r \in Clients :
        (reqs[r].pc = "done" /\ addressed_missing(reqs[r]))
        => IF /\ reqs[r].op \in {"join_classroom", "leave_classroom"}
              /\ reqs[r].user.role # STUDENT
           THEN reqs[r].status = 403
           ELSE reqs[r].status = 404

\* a student's update of a missing classroom ended with NotFound and a
\* teacher's leave of a missing classroom with Forbidden
StudentUpdateNotFoundTeacherLeaveForbidden ==
    /\ \E r \in Clients :
          /\ reqs[r].op = "update_classroom" /\ reqs[r].pc = "done"
          /\ reqs[r].user = S1 /\ reqs[r].id = MissingId /\ reqs[r].status = 404
    /\ \E r \in Clients :
          /\ reqs[r].op = "leave_classroom" /\ reqs[r].pc = "done"
          /\ reqs[r].user = T1 /\ reqs[r].id = MissingId /\ reqs[r].status = 403

----------------------------------------------------------------------------
(* The owner's reorder, update and delete of the materials of one classroom, *)
(* one request at a time                                                     *)

\* one connection, whose requests run to completion one after another
OneClient == {1}

InitReorder ==
    /\ users = {T1}
    /\ classrooms = {Classroom1}
    /\ enrollments = {}
    /\ materials = {Material1, Material2, Material4}
    /\ reqs = [r \in Clients |-> Idle]
    /\ nextUuid = FirstUuid
    /\ now = 0

Classroom1Materials == {Material1.id, Material2.id, Material4.id}

\* ReorderMaterials bodies: every list of one, two or three of the ids,
\* repetitions included
ReorderLists ==
    UNION {[1..n -> Classroom1Materials] : n \in 1..Cardinality(Classroom1Materials)}

Renumber ==
    {[title |-> None, type |-> None, isPublished |-> None, order |-> Some(o)] : o \in {1, 5}}

NextReorder ==
    \E r \in OneClient :
        \/ reorder_materials(r, {T1}, {Classroom1.id}, ReorderLists)
        \/ update_material(r, {T1}, {Material2.id}, Renumber)
        \/ delete_material(r, {T1}, {Material4.id})
        \/ Return(r)

SpecReorder == InitReorder /\ [][NextReorder]_vars

\* the ids of the list are pairwise different
distinct_ids(ids) == \A i \in DOMAIN ids : \A j \in DOMAIN ids : ids[i] = ids[j] => i = j

\* C12: when a reorder(classroomId, ids, owner) has run to completion with no
\* other request interleaved, and the ids are distinct ids of stored materials
\* of that classroom, the material with id ids[i] (counted from 0) has order
\* i + 1.
ReorderStoresIndexPlusOne ==
    \A r \in Clients :
        LET q == reqs[r]
            ids == q.data.materialIds
        IN (/\ q.op = "reorder_materials" /\ q.pc = "done" /\ q.status = 200
            /\ distinct_ids(ids)
            /\ \A i \in DOMAIN ids :
                  \E m \in materials : m.id = ids[i] /\ m.classroomId = q.id)
           => \A i \in DOMAIN ids :
                 \A m \in materials : m.id = ids[i] => m.order = (i - 1) + 1

\* reorder([m3, m1, m2]) has completed on materials that held other orders
\* before: m3 has order 1, m1 order 2, m2 order 3
ThreeMaterialsReordered ==
    \E r \in Clients :
        /\ reqs[r].op = "reorder_materials" /\ reqs[r].pc = "done"
        /\ reqs[r].status = 200
        /\ reqs[r].data.materialIds = <<Material4.id, Material1.id, Material2.id>>
        /\ {<<m.id, m.order>> : m \in materials}
              = {<<Material4.id, 1>>, <<Material1.id, 2>>, <<Material2.id, 3>>}

\* the order values of the classroom's materials are 1..N, each held once
orders_dense(classroomId) ==
    LET ms == {m \in materials : m.classroomId = classroomId}
    IN /\ {m.order : m \in ms} = 1..Cardinality(ms)
       /\ \A m1 \in ms : \A m2 \in ms : m1.order = m2.order => m1 = m2

\* C17 as stated: after any reorder that has run to completion with no other
\* request interleaved, the order values of the classroom's materials are
\* exactly 1..N, each held by one material.
ReorderLeavesOrdersDense ==
    \A r \in Clients :
        (/\ reqs[r].op = "reorder_materials" /\ reqs[r].pc = "done"
         /\ reqs[r].status = 200)
        => orders_dense(reqs[r].id)

\* C17: after a reorder that has run to completion with no other request
\* interleaved and whose list names every material of the classroom exactly
\* once, the order values of the classroom's materials are exactly 1..N, each
\* held by one material, whatever the order values were before.
FullReorderLeavesOrdersDense ==
    \A r \in Clients :
        LET q == reqs[r]
            ids == q.data.materialIds
        IN (/\ q.op = "reorder_materials" /\ q.pc = "done" /\ q.status = 200
            /\ distinct_ids(ids)
            /\ Range(ids) = {m.id : m \in {x \in materials : x.classroomId = q.id}})
           => orders_dense(q.id)

\* the two materials left after the delete of the third hold the orders 1 and
\* 2, in the order of the list, after a reorder that lists both
GapClosedByFullReorder ==
    \E r \in Clients :
        /\ reqs[r].op = "reorder_materials" /\ reqs[r].pc = "done"
        /\ reqs[r].status = 200
        /\ reqs[r].data.materialIds = <<Material2.id, Material1.id>>
        /\ {<<m.id, m.order>> : m \in materials}
              = {<<Material2.id, 1>>, <<Material1.id, 2>>}

----------------------------------------------------------------------------
(* The owner's create, update, delete and reorder of materials, one request *)
(* at a time                                                                 *)

InitCatalog ==
    /\ users = {T1}
    /\ classrooms = {Classroom1}
    /\ enrollments = {}
    /\ materials = {Material1, Material2}
    /\ reqs = [r \in Clients |-> Idle]
    /\ nextUuid = FirstUuid
    /\ now = 0

\* MaterialCreate bodies with a type of the enumeration and one outside it
MaterialCreateAnyType == [title : {"notes"}, type : {"TEXT", "AUDIO"}, isPublished : {None}]

\* MaterialUpdate bodies that carry a type, of the enumeration or outside it
Retype ==
    {[title |-> None, type |-> Some(t), isPublished |-> None, order |-> None]
        : t \in {"VIDEO", "AUDIO"}}

NextCatalog ==
    \E r \in OneClient :
        \/ create_material(r, {T1}, {Classroom1.id}, MaterialCreateAnyType)
        \/ update_material(r, {T1}, {Material1.id}, Retype \cup Renumber)
        \/ delete_material(r, {T1}, {Material1.id, Material2.id})
        \/ reorder_materials(r, {T1}, {Classroom1.id},
                              {<<Material2.id, Material1.id>>, <<Material2.id>>})
        \/ Return(r)

SpecCatalog == InitCatalog /\ [][NextCatalog]_vars

\* C13: in every state reached by material create, update, delete and reorder
\* requests executed one after another, the order values of the materials of
\* each classroom are exactly 1..N, with no gap and no duplicate.
OrdersDenseBetweenRequests ==
    (\A r \in Clients : reqs[r].pc \in {"idle", "done"})
    => \A c \in classrooms : orders_dense(c.id)

\* C14: every stored material has a type of {TEXT, FILE, VIDEO, MODEL3D}, and a
\* create or update request that carries another type ends with InvalidType
\* (and so stores nothing).
StoredTypesValid ==
    /\ \A m \in materials : m.type \in MaterialType
    /\ \A r \in Clients :
          LET q == reqs[r]
          IN /\ (q.op = "create_material" /\ q.pc = "done"
                    /\ q.data.type \notin MaterialType)
                => (q.status = 400 /\ q.detail = "Invalid material type")
             /\ (q.op = "update_material" /\ q.pc = "done"
                    /\ q.data.type # None /\ get(q.data.type) \notin MaterialType)
                => (q.status = 400 /\ q.detail = "Invalid material type")

----------------------------------------------------------------------------
(* The owner's concurrent creates and deletes of materials of one classroom *)

InitAppend ==
    /\ users = {T1}
    /\ classrooms = {Classroom1}
    /\ enrollments = {}
    /\ materials = {Material1, Material2}
    /\ reqs = [r \in Clients |-> Idle]
    /\ nextUuid = FirstUuid
    /\ now = 0

NextAppend ==
    \E r \in Clients :
        \/ create_material(r, {T1}, {Classroom1.id}, MaterialCreate)
        \/ delete_material(r, {T1}, {Material1.id, Material2.id})
        \/ Return(r)

SpecAppend == InitAppend /\ [][NextAppend]_vars

\* C16: the material a successful create stores has order 1 + the greatest
\* order among the classroom's materials present when the create read the
\* store, or 1 when there was none; the insert adds that one material and
\* leaves every stored material, its order included, as it was.
CreateAppendsAfterGreatestOrder ==
    [][\A r \in Clients :
        LET q == reqs[r]
            q2 == reqs'[r]
            present == {m \in materials : m.classroomId = q.id}
        IN /\ (q.pc = "cm_find_last" /\ q2.pc = "cm_insert")
              => /\ \A m \in present : m.order < q2.material.order
                 /\ \/ present = {} /\ q2.material.order = 1
                    \/ \E m \in present : m.order + 1 = q2.material.order
           /\ (q.pc = "cm_insert" /\ q2.pc = "done" /\ q2.status = 200)
              => /\ materials' = materials \cup {q.material}
                 /\ \A m \in materials : m.id # q.material.id
                 /\ q2.body = {q.material}]_vars

\* a create that read the store after material 7 (order 1) was deleted has
\* stored its material with order 3, next to material 8 at order 2
CreatedAfterGapWithOrderThree ==
    \E r \in Clients :
        /\ reqs[r].op = "create_material" /\ reqs[r].pc = "done"
        /\ reqs[r].status = 200
        /\ {<<m.id, m.order>> : m \in materials}
              = {<<Material2.id, 2>>, <<FirstUuid, 3>>}
        /\ \E m \in reqs[r].body : m.id = FirstUuid

----------------------------------------------------------------------------
(* The owner's delete of a classroom, whose writes may fail, next to the *)
(* joins of another student                                               *)

InitDelete ==
    /\ users = {T1, S1, S2}
    /\ classrooms = {Classroom1}
    /\ enrollments = {Enrollment1}
    /\ materials = {Material1, Material2}
    /\ reqs = [r \in Clients |-> Idle]
    /\ nextUuid = FirstUuid
    /\ now = 0

NextDelete ==
    \E r \in Clients :
        \/ delete_classroom(r, {T1}, {Classroom1.id})
        \/ delete_classroom_write_fails(r)
        \/ join_classroom(r, {S2}, {Code1})
        \/ Return(r)

SpecDelete == InitDelete /\ [][NextDelete]_vars

\* an enrollment or a material of Classroom1 that the store held before any
\* delete started is still stored
InitialRowStored ==
    \/ Enrollment1 \in enrollments
    \/ \E m \in materials : m.id \in {Material1.id, Material2.id}

\* C18: a delete(id, owner) removes the classroom record in its last step,
\* after it has issued the deletion of the enrollments and of the materials of
\* the classroom; so whichever step a delete stops after, the classroom record
\* exists in every state in which an enrollment or a material that was there
\* when the delete started still exists.
ClassroomRemovedLast ==
    /\ [](InitialRowStored => \E c \in classrooms : c.id = Classroom1.id)
    /\ [][classrooms' # classrooms
            => \E r \in Clients :
                  /\ reqs[r].op = "delete_classroom"
                  /\ reqs[r].pc = "delete_classroom" /\ reqs'[r].pc = "done"
                  /\ classrooms' = {c \in classrooms : c.id # reqs[r].id}
                  /\ ~InitialRowStored]_vars

\* a delete stopped after its first write: the enrollment is gone, the two
\* materials and the classroom record are still stored
DeleteStoppedAfterEnrollments ==
    /\ \E r \in Clients :
          /\ reqs[r].op = "delete_classroom" /\ reqs[r].pc = "done"
          /\ reqs[r].status = 500
    /\ Enrollment1 \notin enrollments
    /\ {Material1, Material2} \subseteq materials
    /\ Classroom1 \in classrooms

----------------------------------------------------------------------------
(* The owner's updates of a classroom and of a material while time passes *)

InitUpdate ==
    /\ users = {T1}
    /\ classrooms = {Classroom1}
    /\ enrollments = {}
    /\ materials = {Material1}
    /\ reqs = [r \in Clients |-> Idle]
    /\ nextUuid = FirstUuid
    /\ now = 0

\* MaterialUpdate bodies: no field, the stored title, another title, the
\* stored order
MaterialUpdate ==
    {[title |-> t, type |-> None, isPublished |-> None, order |-> o]
        : t \in {None, Some(Material1.title), Some("renamed")},
          o \in {None, Some(Material1.order)}}

NextUpdate ==
    \/ \E r \in OneClient :
          \/ update_classroom(r, {T1}, {Classroom1.id}, ClassroomUpdate)
          \/ update_material(r, {T1}, {Material1.id}, MaterialUpdate)
          \/ Return(r)
    \/ Tick

SpecUpdate == InitUpdate /\ [][NextUpdate]_vars

\* the document of the collection with the id, before and after the step
stored(coll, id) == CHOOSE d \in coll : d.id = id

\* the step leaves the fields of d outside `fields` as they were, and every
\* field of `fields` too unless the request carries it; a carried field holds
\* the request's value
only_requested_fields_change(d, d2, data, fields) ==
    /\ \A f \in (DOMAIN d) \ (fields \cup {"updatedAt"}) : d2[f] = d[f]
    /\ \A f \in fields :
          d2[f] = IF data[f] # None THEN get(data[f]) ELSE d[f]

\* the steps of an update request: only the write changes the store, and it
\* changes the addressed document alone
update_frame(q, q2, coll, coll2, writing, fields) ==
    IF q.pc = writing
    THEN /\ {d.id : d \in coll2} = {d.id : d \in coll}
         /\ \A d \in coll :
               IF d.id = q.id
               THEN only_requested_fields_change(d, stored(coll2, d.id), q.data, fields)
               ELSE d \in coll2
    ELSE coll2 = coll

\* C19 as stated: a successful update(classroom) or update(material) changes
\* only the fields present in the request, and updatedAt is refreshed only if
\* the value of at least one stored field actually changed.
UpdatedAtRefreshedOnlyOnChange ==
    [][\A r \in OneClient :
        LET q == reqs[r]
        IN /\ (q.op = "update_classroom" /\ reqs'[r] # q)
              => /\ update_frame(q, reqs'[r], classrooms, classrooms', "updc_write",
                                 {"name", "isActive"})
                 /\ \A c \in classrooms : \A c2 \in classrooms' :
                       (c2.id = c.id /\ c2.updatedAt # c.updatedAt)
                       => (c2.name # c.name \/ c2.isActive # c.isActive)
           /\ (q.op = "update_material" /\ reqs'[r] # q)
              => /\ update_frame(q, reqs'[r], materials, materials', "um_write",
                                 MaterialUpdateFields)
                 /\ \A m \in materials : \A m2 \in materials' :
                       (m2.id = m.id /\ m2.updatedAt # m.updatedAt)
                       => \E f \in MaterialUpdateFields : m2[f] # m[f]]_vars

\* C19: a successful update(classroom) or update(material) changes only the
\* fields present in the request and leaves every other field (id, code,
\* teacherId, classroomId, createdById, createdAt) unchanged; it writes at all,
\* and then sets updatedAt to the time it read when it built the update, if and
\* only if the request carries at least one field, whether or not the carried
\* values differ from the stored ones.
UpdatedAtRefreshedWhenFieldPresent ==
    [][\A r \in OneClient :
        LET q == reqs[r]
            q2 == reqs'[r]
        IN /\ (q.op = "update_classroom" /\ q2 # q)
              => /\ update_frame(q, q2, classrooms, classrooms', "updc_write",
                                 {"name", "isActive"})
                 /\ q2.pc = "updc_write"
                       => (q2.ts = now /\ \E f \in {"name", "isActive"} : q.data[f] # None)
                 /\ (q.pc = "updc_find" /\ q2.pc = "updc_reread")
                       => \A f \in {"name", "isActive"} : q.data[f] = None
                 /\ q.pc = "updc_write"
                       => stored(classrooms', q.id).updatedAt = q.ts
           /\ (q.op = "update_material" /\ q2 # q)
              => /\ update_frame(q, q2, materials, materials', "um_write",
                                 MaterialUpdateFields)
                 /\ q2.pc = "um_write"
                       => (q2.ts = now /\ \E f \in MaterialUpdateFields : q.data[f] # None)
                 /\ (q.pc = "um_find_classroom" /\ q2.pc = "um_reread")
                       => \A f \in MaterialUpdateFields : q.data[f] = None
                 /\ q.pc = "um_write"
                       => stored(materials', q.id).updatedAt = q.ts]_vars

\* twelve hours after the classroom was created, an update that carried only
\* isActive = TRUE, the stored value, has completed: the classroom is as it
\* was but for its updatedAt
EqualValueRefreshedUpdatedAt ==
    \E r \in OneClient :
        /\ reqs[r].op = "update_classroom" /\ reqs[r].pc = "done"
        /\ reqs[r].status = 200
        /\ reqs[r].data = [name |-> None, isActive |-> Some(TRUE)]
        /\ classrooms = {[Classroom1 EXCEPT !.updatedAt = TickHours]}
        /\ reqs[r].body = classrooms

----------------------------------------------------------------------------
(* Registration on every connection; the tokens it returns are presented *)
(* to /auth on one connection, which also logs in and changes the         *)
(* profile and the password, while time passes                            *)

InitAuth ==
    /\ users = {T1}
    /\ classrooms = {}
    /\ enrollments = {}
    /\ materials = {}
    /\ reqs = [r \in Clients |-> Idle]
    /\ nextUuid = FirstUuid
    /\ now = 0

NewStudent == [email : {"new@x"}, password : {"pw"}, role : {STUDENT}, name : {"N"}]

UserLogin == [email : {"t1@x"}, password : {"pw1"}]

UserUpdate == [name : {Some("renamed")}, avatar : {None}]

PasswordChange == [currentPassword : {"pw"}, newPassword : {"pw2"}]

\* the tokens a client holds: those of the register and login responses
issued_tokens ==
    {reqs[c].token : c \in {x \in Clients : reqs[x].pc = "done" /\ reqs[x].token # NoToken}}

\* the tokens of the register responses
registered_tokens ==
    {reqs[c].token : c \in {x \in Clients : /\ reqs[x].pc = "done"
                                             /\ reqs[x].op = "register"
                                             /\ reqs[x].token # NoToken}}

\* a token nobody signed with JWT_SECRET
forged_token == jwt_encode([sub |-> T1.id, email |-> T1.email, role |-> T1.role,
                            exp |-> now + JWT_EXPIRATION_HOURS], "guess")

NextAuth ==
    \/ \E r \in Clients :
          \/ register(r, NewStudent)
          \/ Return(r)
    \/ \E r \in OneClient :
          \/ login(r, UserLogin)
          \/ get_profile(r, issued_tokens \cup {forged_token})
          \/ update_profile(r, registered_tokens, UserUpdate)
          \/ change_password(r, registered_tokens, PasswordChange)
    \/ Tick

SpecAuth == InitAuth /\ [][NextAuth]_vars

\* C15: while the token a successful register or login returned has not
\* expired, authenticate resolves it to a stored user whose id is the id of the
\* user that register or login returned, whatever profile updates, password
\* changes and registrations have been made since.
TokenResolvesToItsUser ==
    \A r \in Clients :
        LET q == reqs[r]
        IN (/\ q.op \in {"register", "login"} /\ q.pc = "done" /\ q.status = 200
            /\ now < q.token.exp)
           => LET current == get_current_user(q.token)
              IN /\ current.status = 200
                 /\ current.user \in users
                 /\ \A u \in q.body : current.user.id = u.id

\* the registered user has since changed name and password, and the token of
\* the register response, presented to GET /auth/profile, was resolved to that
\* user
TokenResolvedAfterProfileAndPasswordChange ==
    \E r \in Clients : \E p \in Clients :
        /\ reqs[r].op = "register" /\ reqs[r].pc = "done" /\ reqs[r].status = 200
        /\ reqs[p].op = "get_profile" /\ reqs[p].pc = "done" /\ reqs[p].status = 200
        /\ \E u \in reqs[r].body : \E v \in reqs[p].body :
              /\ v.id = u.id
              /\ v.name = "renamed" /\ u.name = "N"
              /\ v.password = hash_password("pw2")
              /\ v \in users

----------------------------------------------------------------------------
(* Completion of create_classroom *)

\* C20: a classroom create request by a teacher completes by storing a
\* classroom, under the code its last uniqueness check found unused, whenever
\* a code of the code space is held by no stored classroom.
TeacherCreateStoresClassroom ==
    \A r \in Clients :
        LET q == reqs[r]
        IN (/\ q.op = "create_classroom" /\ q.pc = "done" /\ q.user.role = TEACHER
            /\ \E code \in generate_code(CodeLength) :
                  \A c \in classrooms : c.code # code)
           => /\ q.status = 200
              /\ \E c \in classrooms : c \in q.body /\ c.code = q.code

----------------------------------------------------------------------------
(* Reads and writes of a material racing with the delete of its classroom *)

InitOrphan ==
    /\ users = {T1, S1}
    /\ classrooms = {Classroom1}
    /\ enrollments = {Enrollment1}
    /\ materials = {Material1}
    /\ reqs = [r \in Clients |-> Idle]
    /\ nextUuid = FirstUuid
    /\ now = 0

NextOrphan ==
    \E r \in Clients :
        \/ get_material(r, {T1, S1}, {Material1.id})
        \/ update_material(r, {T1}, {Material1.id}, Retitle)
        \/ delete_material(r, {T1}, {Material1.id})
        \/ delete_classroom(r, {T1}, {Classroom1.id})
        \/ Return(r)

SpecOrphan == InitOrphan /\ [][NextOrphan]_vars

\* C21: under any interleaving of get, update and delete material requests
\* with a delete of the owning classroom, every material request ends with
\* success, NotFound or Forbidden (the handler never reads teacherId from a
\* missing classroom, which ends the request with an internal error).
MaterialRequestsEndDefined ==
    \A r \in Clients :
        (reqs[r].op \in ByMaterialId /\ reqs[r].pc = "done")
        => reqs[r].status \in {200, 404, 403}

----------------------------------------------------------------------------
(* Concurrent creates of materials of one classroom, and nothing else *)

InitCreates ==
    /\ users = {T1}
    /\ classrooms = {Classroom1}
    /\ enrollments = {}
    /\ materials = {Material1, Material2}
    /\ reqs = [r \in Clients |-> Idle]
    /\ nextUuid = FirstUuid
    /\ now = 0

NextCreates ==
    \E r \in Clients :
        \/ create_material(r, {T1}, {Classroom1.id}, MaterialCreate)
        \/ Return(r)

SpecCreates == InitCreates /\ [][NextCreates]_vars

----------------------------------------------------------------------------
(* One reorder on each connection, each listing the three materials of the *)
(* classroom as a permutation                                              *)

InitShuffle ==
    /\ users = {T1}
    /\ classrooms = {Classroom1}
    /\ enrollments = {}
    /\ materials = {Material1, Material2, Material4}
    /\ reqs = [r \in Clients |-> Idle]
    /\ nextUuid = FirstUuid
    /\ now = 0

\* ReorderMaterials bodies: the lists that name every material of the
\* classroom once
FullLists == {l \in ReorderLists : Range(l) = Classroom1Materials}

\* no response is collected: every connection carries one reorder
NextShuffle ==
    \E r \in Clients :
        reorder_materials(r, {T1}, {Classroom1.id}, FullLists)

SpecShuffle == InitShuffle /\ [][NextShuffle]_vars

\* the order the request's list gives the material: its index + 1
assigned_order(q, id) ==
    CHOOSE i \in DOMAIN q.data.materialIds : q.data.materialIds[i] = id

\* every connection has sent its reorder and every reorder has completed
AllReordersDone ==
    \A r \in Clients : reqs[r].op = "reorder_materials" /\ reqs[r].pc = "done"

\* C23 as stated: when the concurrent reorders of a classroom, each listing
\* all of its materials as a permutation, have all completed, the order values
\* are the assignment of one of the requests (so they are pairwise distinct).
ReordersSerialize ==
    AllReordersDone
    => \E r \in Clients :
          \A m \in materials : m.order = assigned_order(reqs[r], m.id)

\* C23: when the concurrent reorders of a classroom, each listing all of its
\* materials as a permutation, have all completed, the order value of each
\* material is the value one of the requests assigned to that material, not
\* necessarily the same request for every material; the order values need not
\* be pairwise distinct.
ReordersMixPerMaterial ==
    AllReordersDone
    => \A m \in materials :
          \E r \in Clients : m.order = assigned_order(reqs[r], m.id)

\* both reorders have completed and two materials hold the same order, each
\* the value one of the two lists gave it, and no list gave the stored values
ReordersLeftDuplicateOrder ==
    /\ AllReordersDone
    /\ \E m1 \in materials : \E m2 \in materials : m1.id # m2.id /\ m1.order = m2.order
    /\ \A r \in Clients :
          \E m \in materials : m.order # assigned_order(reqs[r], m.id)

=============================================================================
